---- MODULE Spec2Model ----
(***************************************************************************)
(* SwachhSathi collector app: the localStorage-backed event store          *)
(* (utils/api.ts), the scan-history cache (utils/scanner.ts) and the UI    *)
(* flows that drive them (App, Login, Index, QRScanner, ReportDumping).    *)
(***************************************************************************)
EXTENDS Integers, Sequences, FiniteSets, TLC

VARIABLES
    localStorage,   \* window.localStorage: key -> absent | JSON value
    now,            \* Date.now(), in milliseconds
    lastCall,       \* the latest API call: its name, argument and return value
    returnedLogs,   \* history: records returned by CollectorAPI.logCollection
    markedScans,    \* history: entries markAsSynced(their id) ran on since the last clear
    currentCollector,   \* App: the currentCollector state
    index,              \* Index: activeView, showWasteSelector, scannedUserId, scanLocation
    scanner,            \* QRScanner: its state while it is mounted
    form,               \* ReportDumping: its state while it is mounted
    dashboard,          \* Dashboard: its state while it is mounted
    pendingScans,       \* handleScan calls waiting for getCurrentLocation()
    pendingLocations,   \* getLocation calls waiting for getCurrentLocation()
    pendingSubmits,     \* handleSubmit calls waiting for convertFileToBase64()
    lastToast,          \* title of the latest toast
    scanStats,          \* history: userIds decoded, results accepted, requests dropped
    successCalls,       \* history: the arguments of every onScanSuccess call
    formFixes,          \* history: positions captured by the mounted report form
    lastSubmit,         \* history: what the latest completed handleSubmit held
    utilCall            \* a call of a utility function: name, argument, and result once run

apiVars == <<lastCall, returnedLogs, markedScans>>
uiVars == <<currentCollector, index, scanner, form, dashboard, pendingScans, pendingLocations,
            pendingSubmits, lastToast, scanStats, successCalls, formFixes, lastSubmit>>
utilVars == <<utilCall>>
vars == <<localStorage, now, apiVars, uiVars, utilVars>>

(***************************************************************************)
(* Bounds                                                                  *)
(***************************************************************************)
MaxTime == 1        \* the clock runs over 0..MaxTime
MaxRecords == 2     \* records held by the three list partitions together
MaxPending == 2     \* promises in flight at once
MaxScans == 2       \* scan results the scanner takes up for a location
MaxWrites == 1      \* records written from the app
MaxTextLen == 2     \* characters of the free texts given to the QR decoder

(***************************************************************************)
(* JavaScript values                                                       *)
(***************************************************************************)
\* An optional property is either undefined (None) or holds a value.
None == [some |-> FALSE]
Some(v) == [some |-> TRUE, v |-> v]

\* Properties declared optional in the interfaces of api.ts and scanner.ts.
OptionalKeys == {"notes", "photo_url", "photo_base64", "description",
                 "phone", "area", "location"}

\* obj[k] as JavaScript reads it: a missing property reads as undefined.
Field(obj, k) == IF k \in DOMAIN obj THEN obj[k] ELSE None

\* Two objects agree on every property either of them has.
SameFields(a, b) ==
    \A k \in (DOMAIN a) \cup (DOMAIN b) : Field(a, k) = Field(b, k)

\* JSON.parse(JSON.stringify(obj)): properties whose value is undefined are
\* not written, so they are missing from the parsed object.
JSONObject(obj) ==
    [k \in {j \in DOMAIN obj : ~(j \in OptionalKeys /\ obj[j] = None)} |-> obj[k]]

\* JSON.parse(JSON.stringify(list)) for a list of objects.
JSONList(list) == [i \in 1..Len(list) |-> JSONObject(list[i])]

\* { ...obj, id: id }
WithId(obj, id) ==
    [k \in (DOMAIN obj) \cup {"id"} |-> IF k = "id" THEN id ELSE obj[k]]

\* A JavaScript string is the sequence of its characters.
EmptyString == <<>>

\* `Collector ${collectorId}` starts with this text.
CollectorNamePrefix == <<"C", "o", "l", "l", "e", "c", "t", "o", "r", " ">>

(***************************************************************************)
(* window.localStorage                                                     *)
(***************************************************************************)
Keys == {"collection_logs", "dumping_reports", "current_collector", "scan_history"}

Absent == [has |-> FALSE]               \* getItem(key) === null
Item(v) == [has |-> TRUE, json |-> v]   \* the stored JSON text, parsed

\* Math.random().toString(36).substr(2, 9): the random suffix of an id.
Rands == {"a", "b"}

\* `${kind}_${Date.now()}_${suffix}`
MakeId(kind, t, r) == <<kind, t, r>>

(***************************************************************************)
(* class LocalStorage (api.ts)                                             *)
(***************************************************************************)
LocalStorage_getItem(ls, key) ==
    IF ls[key].has THEN ls[key].json ELSE <<>>

LocalStorage_setItem(ls, key, data) ==
    [ls EXCEPT ![key] = Item(JSONList(data))]

LocalStorage_getCollectionLogs(ls) == LocalStorage_getItem(ls, "collection_logs")

\* Slip: the new log replaces the stored list instead of joining it.
LocalStorage_addCollectionLog_replacing(ls, log, t, r) ==
    LET newLog == WithId(log, MakeId("log", t, r))
    IN  [store |-> LocalStorage_setItem(ls, "collection_logs", <<newLog>>),
         ret |-> newLog]

\* Returns the new storage and the record handed back to the caller.
LocalStorage_addCollectionLog(ls, log, t, r) ==
    LET logs == LocalStorage_getCollectionLogs(ls)
        newLog == WithId(log, MakeId("log", t, r))
    IN  [store |-> LocalStorage_setItem(ls, "collection_logs", Append(logs, newLog)),
         ret |-> newLog]

LocalStorage_getIllegalDumpingReports(ls) == LocalStorage_getItem(ls, "dumping_reports")

\* Slip: unshift instead of push.
LocalStorage_addDumpingReport_unshift(ls, report, t, r) ==
    LET reports == LocalStorage_getIllegalDumpingReports(ls)
        newReport == WithId(report, MakeId("report", t, r))
    IN  [store |-> LocalStorage_setItem(ls, "dumping_reports", <<newReport>> \o reports),
         ret |-> newReport]

LocalStorage_addDumpingReport(ls, report, t, r) ==
    LET reports == LocalStorage_getIllegalDumpingReports(ls)
        newReport == WithId(report, MakeId("report", t, r))
    IN  [store |-> LocalStorage_setItem(ls, "dumping_reports", Append(reports, newReport)),
         ret |-> newReport]

\* Collector | null, as an optional value.
LocalStorage_getCurrentCollector(ls) ==
    IF ls["current_collector"].has THEN Some(ls["current_collector"].json) ELSE None

LocalStorage_setCurrentCollector(ls, collector) ==
    [ls EXCEPT !["current_collector"] = Item(JSONObject(collector))]

\* Slip: removeItem is given a key that is not the session's.
LocalStorage_clearCurrentCollector_wrongKey(ls) == ls

LocalStorage_clearCurrentCollector(ls) ==
    [ls EXCEPT !["current_collector"] = Absent]

(***************************************************************************)
(* class CollectorAPI (api.ts)                                             *)
(***************************************************************************)
\* Slip: the fresh record is named by the bare id.
CollectorAPI_login_unnamed(ls, collectorId) ==
    LET existing == LocalStorage_getCurrentCollector(ls)
        collector == [id |-> collectorId, name |-> collectorId, is_active |-> TRUE]
    IN  IF existing.some /\ existing.v.id = collectorId
        THEN [store |-> ls, ret |-> existing.v]
        ELSE [store |-> LocalStorage_setCurrentCollector(ls, collector),
              ret |-> collector]

\* Slip: a persisted collector is returned whatever its id.
CollectorAPI_login_keepsExisting(ls, collectorId) ==
    LET existing == LocalStorage_getCurrentCollector(ls)
        collector == [id |-> collectorId,
                      name |-> CollectorNamePrefix \o collectorId,
                      is_active |-> TRUE]
    IN  IF existing.some
        THEN [store |-> ls, ret |-> existing.v]
        ELSE [store |-> LocalStorage_setCurrentCollector(ls, collector),
              ret |-> collector]

\* Returns the new storage and the collector handed back to the caller.
CollectorAPI_login(ls, collectorId) ==
    LET existing == LocalStorage_getCurrentCollector(ls)
        collector == [id |-> collectorId,
                      name |-> CollectorNamePrefix \o collectorId,
                      is_active |-> TRUE]
    IN  IF existing.some /\ existing.v.id = collectorId
        THEN [store |-> ls, ret |-> existing.v]
        ELSE [store |-> LocalStorage_setCurrentCollector(ls, collector),
              ret |-> collector]

\* Slip: logout leaves the store alone.
CollectorAPI_logout_noop(ls) == ls

CollectorAPI_logout(ls) == LocalStorage_clearCurrentCollector(ls)

CollectorAPI_getCurrentCollector(ls) == LocalStorage_getCurrentCollector(ls)

CollectorAPI_logCollection(ls, data, t, r) ==
    LocalStorage_addCollectionLog(ls, data, t, r)

\* Slip: the filter is applied whenever an argument is passed, also an empty one.
CollectorAPI_getCollectionLogs_whenPassed(ls, collectorId) ==
    LET logs == LocalStorage_getCollectionLogs(ls)
    IN  IF collectorId.some
        THEN SelectSeq(logs, LAMBDA log : log.collector_id = collectorId.v)
        ELSE logs

\* collectorId is an optional argument; the empty string is falsy like undefined.
CollectorAPI_getCollectionLogs(ls, collectorId) ==
    LET logs == LocalStorage_getCollectionLogs(ls)
    IN  IF collectorId.some /\ collectorId.v # EmptyString
        THEN SelectSeq(logs, LAMBDA log : log.collector_id = collectorId.v)
        ELSE logs

\* Slip: the caller is handed its own input back, not the stored record.
CollectorAPI_reportIllegalDumping_echo(ls, data, t, r) ==
    [store |-> LocalStorage_addDumpingReport(ls, data, t, r).store, ret |-> data]

CollectorAPI_reportIllegalDumping(ls, data, t, r) ==
    LocalStorage_addDumpingReport(ls, data, t, r)

CollectorAPI_getDumpingReports(ls, collectorId) ==
    LET reports == LocalStorage_getIllegalDumpingReports(ls)
    IN  IF collectorId.some /\ collectorId.v # EmptyString
        THEN SelectSeq(reports, LAMBDA report : report.collector_id = collectorId.v)
        ELSE reports

(***************************************************************************)
(* class ScanHistoryManager (scanner.ts)                                   *)
(***************************************************************************)
ScanHistoryManager_getHistory(ls) ==
    IF ls["scan_history"].has THEN ls["scan_history"].json ELSE <<>>

\* Slip: the history is saved under the key of the collection logs.
ScanHistoryManager_saveHistory_wrongKey(ls, history) ==
    [ls EXCEPT !["collection_logs"] = Item(JSONList(history))]

ScanHistoryManager_saveHistory(ls, history) ==
    [ls EXCEPT !["scan_history"] = Item(JSONList(history))]

ScanHistoryManager_addScan(ls, userId, location, t, r) ==
    LET scan == [id |-> MakeId("scan", t, r),
                 userId |-> userId,
                 timestamp |-> t,
                 location |-> location,
                 synced |-> FALSE]
        history == ScanHistoryManager_getHistory(ls)
    IN  [store |-> ScanHistoryManager_saveHistory(ls, Append(history, scan)),
         ret |-> scan]

ScanHistoryManager_getUnsyncedScans(ls) ==
    SelectSeq(ScanHistoryManager_getHistory(ls), LAMBDA scan : ~scan.synced)

\* history.find(s => s.id === scanId): the index of the first match, 0 if none.
FindScan(history, scanId) ==
    IF \E i \in 1..Len(history) : history[i].id = scanId
    THEN CHOOSE i \in 1..Len(history) :
            /\ history[i].id = scanId
            /\ \A j \in 1..(i - 1) : history[j].id # scanId
    ELSE 0

\* Slip: the flag is toggled instead of set.
ScanHistoryManager_markAsSynced_toggle(ls, scanId) ==
    LET history == ScanHistoryManager_getHistory(ls)
        i == FindScan(history, scanId)
    IN  IF i # 0
        THEN ScanHistoryManager_saveHistory(ls,
                [history EXCEPT ![i] = [history[i] EXCEPT !.synced = ~history[i].synced]])
        ELSE ls

\* Slip: every entry with the id is marked, not the first one found.
ScanHistoryManager_markAsSynced_all(ls, scanId) ==
    LET history == ScanHistoryManager_getHistory(ls)
    IN  IF FindScan(history, scanId) # 0
        THEN ScanHistoryManager_saveHistory(ls,
                [i \in 1..Len(history) |->
                    IF history[i].id = scanId
                    THEN [history[i] EXCEPT !.synced = TRUE] ELSE history[i]])
        ELSE ls

ScanHistoryManager_markAsSynced(ls, scanId) ==
    LET history == ScanHistoryManager_getHistory(ls)
        i == FindScan(history, scanId)
    IN  IF i # 0
        THEN ScanHistoryManager_saveHistory(ls,
                [history EXCEPT ![i] = [history[i] EXCEPT !.synced = TRUE]])
        ELSE ls

\* Slip: the filter keeps the synced entries.
ScanHistoryManager_clearSyncedScans_keepsSynced(ls) ==
    LET history == SelectSeq(ScanHistoryManager_getHistory(ls), LAMBDA scan : scan.synced)
    IN  ScanHistoryManager_saveHistory(ls, history)

ScanHistoryManager_clearSyncedScans(ls) ==
    LET history == SelectSeq(ScanHistoryManager_getHistory(ls), LAMBDA scan : ~scan.synced)
    IN  ScanHistoryManager_saveHistory(ls, history)

(***************************************************************************)
(* JavaScript values decoded from QR text                                  *)
(***************************************************************************)
JUndefined == [t |-> "undefined"]
JNull == [t |-> "null"]
JStr(s) == [t |-> "string", s |-> s]
JNum(n) == [t |-> "number", n |-> n]
JBool(b) == [t |-> "boolean", b |-> b]
JArr(items) == [t |-> "array", items |-> items]
JObj(members) == [t |-> "object", members |-> members]  \* <<[k, v], ...>> in text order

\* The value counts as true in a condition.
Truthy(v) ==
    CASE v.t = "string" -> v.s # EmptyString
      [] v.t = "number" -> v.n # 0
      [] v.t = "boolean" -> v.b
      [] v.t \in {"undefined", "null"} -> FALSE
      [] OTHER -> TRUE

StartsWith(s, p) == Len(s) >= Len(p) /\ SubSeq(s, 1, Len(p)) = p

\* s.indexOf(p), 1-based; 0 when p does not occur.
IndexOf(s, p) ==
    LET hits == { i \in 1..(Len(s) - Len(p) + 1) : SubSeq(s, i, i + Len(p) - 1) = p }
    IN  IF hits = {} THEN 0 ELSE CHOOSE i \in hits : \A j \in hits : i <= j

\* A replace that takes the last occurrence of the pattern.
ReplaceFirst_last(s, p, rep) ==
    LET hits == { i \in 1..(Len(s) - Len(p) + 1) : SubSeq(s, i, i + Len(p) - 1) = p }
        i == IF hits = {} THEN 0 ELSE CHOOSE h \in hits : \A j \in hits : h >= j
    IN  IF i = 0 THEN s
        ELSE SubSeq(s, 1, i - 1) \o rep \o SubSeq(s, i + Len(p), Len(s))

\* s.replace(p, rep) with a string pattern: the first occurrence only.
ReplaceFirst(s, p, rep) ==
    LET i == IndexOf(s, p)
    IN  IF i = 0 THEN s
        ELSE SubSeq(s, 1, i - 1) \o rep \o SubSeq(s, i + Len(p), Len(s))

\* s.trim()
RECURSIVE TrimStart(_)
TrimStart(s) == IF s # <<>> /\ Head(s) = " " THEN TrimStart(Tail(s)) ELSE s

RECURSIVE TrimEnd(_)
TrimEnd(s) ==
    IF s # <<>> /\ s[Len(s)] = " " THEN TrimEnd(SubSeq(s, 1, Len(s) - 1)) ELSE s

\* Slip: only the leading whitespace is removed.
Trim_start(s) == TrimStart(s)

Trim(s) == TrimEnd(TrimStart(s))

(***************************************************************************)
(* JSON.parse, for texts without fractions, exponents and \u escapes       *)
(***************************************************************************)
ParseFail == [ok |-> FALSE]
ParseOk(v, next) == [ok |-> TRUE, val |-> v, next |-> next]

Digits == {"0", "1", "2", "3", "4", "5", "6", "7", "8", "9"}

DigitValue(c) ==
    CASE c = "0" -> 0 [] c = "1" -> 1 [] c = "2" -> 2 [] c = "3" -> 3 [] c = "4" -> 4
      [] c = "5" -> 5 [] c = "6" -> 6 [] c = "7" -> 7 [] c = "8" -> 8 [] c = "9" -> 9

RECURSIVE SkipWs(_, _)
SkipWs(s, i) == IF i <= Len(s) /\ s[i] = " " THEN SkipWs(s, i + 1) ELSE i

\* The characters of a string literal whose opening quote is before s[i].
RECURSIVE ParseChars(_, _, _)
ParseChars(s, i, acc) ==
    IF i > Len(s) THEN ParseFail
    ELSE IF s[i] = "\"" THEN ParseOk(acc, i + 1)
    ELSE IF s[i] = "\\"
         THEN IF i + 1 <= Len(s) /\ s[i + 1] \in {"\"", "\\", "/"}
              THEN ParseChars(s, i + 2, Append(acc, s[i + 1]))
              ELSE ParseFail
    ELSE ParseChars(s, i + 1, Append(acc, s[i]))

\* The digits from s[i] on, as a number.
RECURSIVE ParseDigits(_, _, _)
ParseDigits(s, i, acc) ==
    IF i <= Len(s) /\ s[i] \in Digits
    THEN ParseDigits(s, i + 1, 10 * acc + DigitValue(s[i]))
    ELSE ParseOk(acc, i)

\* -? ( 0 | [1-9][0-9]* )
ParseNumber(s, i) ==
    LET neg == i <= Len(s) /\ s[i] = "-"
        j == IF neg THEN i + 1 ELSE i
    IN  IF j > Len(s) \/ s[j] \notin Digits THEN ParseFail
        ELSE IF s[j] = "0" THEN ParseOk(JNum(0), j + 1)
        ELSE LET d == ParseDigits(s, j, 0)
             IN  ParseOk(JNum(IF neg THEN 0 - d.val ELSE d.val), d.next)

Literal(s, i, word) ==
    i + Len(word) - 1 <= Len(s) /\ SubSeq(s, i, i + Len(word) - 1) = word

RECURSIVE ParseValue(_, _)
RECURSIVE ParseMembers(_, _, _)
RECURSIVE ParseElements(_, _, _)

ParseValue(s, i0) ==
    LET i == SkipWs(s, i0)
    IN  IF i > Len(s) THEN ParseFail
        ELSE IF s[i] = "\"" THEN
            LET r == ParseChars(s, i + 1, <<>>)
            IN  IF r.ok THEN ParseOk(JStr(r.val), r.next) ELSE ParseFail
        ELSE IF s[i] = "{" THEN
            LET j == SkipWs(s, i + 1)
            IN  IF j <= Len(s) /\ s[j] = "}" THEN ParseOk(JObj(<<>>), j + 1)
                ELSE ParseMembers(s, j, <<>>)
        ELSE IF s[i] = "[" THEN
            LET j == SkipWs(s, i + 1)
            IN  IF j <= Len(s) /\ s[j] = "]" THEN ParseOk(JArr(<<>>), j + 1)
                ELSE ParseElements(s, j, <<>>)
        ELSE IF Literal(s, i, <<"n", "u", "l", "l">>) THEN ParseOk(JNull, i + 4)
        ELSE IF Literal(s, i, <<"t", "r", "u", "e">>) THEN ParseOk(JBool(TRUE), i + 4)
        ELSE IF Literal(s, i, <<"f", "a", "l", "s", "e">>) THEN ParseOk(JBool(FALSE), i + 5)
        ELSE ParseNumber(s, i)

ParseMembers(s, i0, acc) ==
    LET i == SkipWs(s, i0)
    IN  IF i > Len(s) \/ s[i] # "\"" THEN ParseFail
        ELSE LET k == ParseChars(s, i + 1, <<>>)
             IN  IF ~k.ok THEN ParseFail
                 ELSE LET c == SkipWs(s, k.next)
                      IN  IF c > Len(s) \/ s[c] # ":" THEN ParseFail
                          ELSE LET v == ParseValue(s, c + 1)
                               IN  IF ~v.ok THEN ParseFail
                                   ELSE LET e == SkipWs(s, v.next)
                                            more == Append(acc, [k |-> k.val, v |-> v.val])
                                        IN  IF e > Len(s) THEN ParseFail
                                            ELSE IF s[e] = "}" THEN ParseOk(JObj(more), e + 1)
                                            ELSE IF s[e] = "," THEN ParseMembers(s, e + 1, more)
                                            ELSE ParseFail

ParseElements(s, i0, acc) ==
    LET v == ParseValue(s, i0)
    IN  IF ~v.ok THEN ParseFail
        ELSE LET e == SkipWs(s, v.next)
                 more == Append(acc, v.val)
             IN  IF e > Len(s) THEN ParseFail
                 ELSE IF s[e] = "]" THEN ParseOk(JArr(more), e + 1)
                 ELSE IF s[e] = "," THEN ParseElements(s, e + 1, more)
                 ELSE ParseFail

\* A parse that stops at the end of the first value and ignores what follows.
JSONParse_lenient(s) ==
    LET r == ParseValue(s, 1)
    IN  IF r.ok THEN [ok |-> TRUE, val |-> r.val] ELSE [ok |-> FALSE]

\* JSON.parse(text): the value, or ok = FALSE where it throws SyntaxError.
JSONParse(s) ==
    LET r == ParseValue(s, 1)
    IN  IF r.ok /\ SkipWs(s, r.next) = Len(s) + 1
        THEN [ok |-> TRUE, val |-> r.val]
        ELSE [ok |-> FALSE]

\* value[key] for a parsed value other than null: the last member of an
\* object with that key; undefined on objects without it and on primitives.
GetProp(value, key) ==
    IF value.t = "object" /\ \E i \in 1..Len(value.members) : value.members[i].k = key
    THEN LET last == CHOOSE i \in 1..Len(value.members) :
                        /\ value.members[i].k = key
                        /\ \A j \in (i + 1)..Len(value.members) : value.members[j].k # key
         IN  value.members[last].v
    ELSE JUndefined

(***************************************************************************)
(* scanner.ts: parseQRCode and the helpers next to it                      *)
(***************************************************************************)
SwachhPrefix == <<"S", "W", "A", "C", "H", "H", "_", "U", "S", "E", "R", "_">>
UserIdKey == <<"u", "s", "e", "r", "I", "d">>
User_idKey == <<"u", "s", "e", "r", "_", "i", "d">>

\* A decoder that prefers user_id to userId.
JsonUserId_user_idFirst(parsed) ==
    IF Truthy(GetProp(parsed, User_idKey)) THEN GetProp(parsed, User_idKey)
    ELSE GetProp(parsed, UserIdKey)

\* parsed.userId || parsed.user_id
JsonUserId(parsed) ==
    IF Truthy(GetProp(parsed, UserIdKey)) THEN GetProp(parsed, UserIdKey)
    ELSE GetProp(parsed, User_idKey)

\* The inner try block throws: JSON.parse rejects the text (SyntaxError), or
\* a property of null is read (TypeError).
JsonBranchThrows(qrText) ==
    LET parsed == JSONParse(qrText)
    IN  ~parsed.ok \/ parsed.val.t = "null"

\* The result of the catch block of the outer try.
DecodeFailure(qrText) ==
    [text |-> qrText, isValid |-> FALSE,
     error |-> <<"I", "n", "v", "a", "l", "i", "d", " ", "Q", "R", " ", "c", "o", "d", "e",
                 " ", "f", "o", "r", "m", "a", "t">>]

\* A decoder without the inner try: what JSON.parse throws reaches the outer catch.
parseQRCode_rethrow(qrText) ==
    LET userId == ReplaceFirst(qrText, SwachhPrefix, EmptyString)
    IN  IF StartsWith(qrText, SwachhPrefix) /\ userId # EmptyString /\ Len(userId) > 0
        THEN [text |-> qrText, userId |-> JStr(userId), isValid |-> TRUE]
        ELSE IF JsonBranchThrows(qrText) THEN DecodeFailure(qrText)
        ELSE IF Truthy(JsonUserId(JSONParse(qrText).val))
        THEN [text |-> qrText, userId |-> JsonUserId(JSONParse(qrText).val), isValid |-> TRUE]
        ELSE [text |-> qrText, userId |-> JStr(qrText), isValid |-> TRUE]

\* Nothing outside the inner try can throw for a string, so the catch block
\* of the outer try, DecodeFailure, is never the result.
parseQRCode(qrText) ==
    LET userId == ReplaceFirst(qrText, SwachhPrefix, EmptyString)
    IN  IF StartsWith(qrText, SwachhPrefix) /\ userId # EmptyString /\ Len(userId) > 0
        THEN [text |-> qrText, userId |-> JStr(userId), isValid |-> TRUE]
        ELSE IF ~JsonBranchThrows(qrText) /\ Truthy(JsonUserId(JSONParse(qrText).val))
        THEN [text |-> qrText, userId |-> JsonUserId(JSONParse(qrText).val), isValid |-> TRUE]
        ELSE [text |-> qrText, userId |-> JStr(qrText), isValid |-> TRUE]

\* userId.length >= 3 && /^[a-zA-Z0-9_-]+$/.test(userId)
IdChars ==
    {"a", "b", "c", "d", "e", "f", "g", "h", "i", "j", "k", "l", "m",
     "n", "o", "p", "q", "r", "s", "t", "u", "v", "w", "x", "y", "z",
     "A", "B", "C", "D", "E", "F", "G", "H", "I", "J", "K", "L", "M",
     "N", "O", "P", "Q", "R", "S", "T", "U", "V", "W", "X", "Y", "Z",
     "0", "1", "2", "3", "4", "5", "6", "7", "8", "9", "_", "-"}
isValidUserId(userId) ==
    /\ Len(userId) >= 3
    /\ \A i \in 1..Len(userId) : userId[i] \in IdChars

\* Slip: a space is put between the prefix and the id.
generateMockQRCode_spaced(userId) == SwachhPrefix \o <<" ">> \o userId

\* `SWACHH_USER_${userId}`
generateMockQRCode(userId) == SwachhPrefix \o userId

\* The names for which getScannerErrorMessage has a message of its own.
getScannerErrorMessage(name) ==
    CASE name = "NotAllowedError" -> "Camera permission denied. Please allow camera access to scan QR codes."
      [] name = "NotFoundError" -> "No camera found on this device."
      [] name = "NotSupportedError" -> "Camera is not supported in this browser."
      [] name = "NotReadableError" -> "Camera is being used by another application."
      [] OTHER -> "An error occurred while accessing the camera. Please try again."

(***************************************************************************)
(* location.ts                                                             *)
(***************************************************************************)
\* Slip: the messages of codes 2 and 3 are exchanged.
getLocationErrorMessage_swapped(code) ==
    CASE code = 1 -> "Location access denied by user."
      [] code = 2 -> "Location request timed out."
      [] code = 3 -> "Location information is unavailable."
      [] OTHER -> "An unknown error occurred while fetching location."

getLocationErrorMessage(code) ==
    CASE code = 1 -> "Location access denied by user."
      [] code = 2 -> "Location information is unavailable."
      [] code = 3 -> "Location request timed out."
      [] OTHER -> "An unknown error occurred while fetching location."

\* Numbers are kept in fixed point, as the doubles of the program are kept
\* in 53 bits: a sine or cosine is rounded to hundredths. Angles in radians
\* are counted in units of pi/12.
NaN == [t |-> "NaN"]

\* a === b on numbers: NaN equals nothing, itself included.
StrictEquals(a, b) == a # NaN /\ b # NaN /\ a = b

\* degree * (Math.PI / 180), for the multiples of 15 degrees.
toRadian(degree) == degree \div 15

\* Math.sin and Math.cos of a multiple of pi/12, in hundredths.
SinQuarter == <<26, 50, 71, 87, 97, 100>>
MathSin(x) ==
    LET r == x % 24
        Up(q) == IF q = 0 THEN 0 ELSE IF q <= 6 THEN SinQuarter[q] ELSE SinQuarter[12 - q]
    IN  IF r <= 12 THEN Up(r) ELSE 0 - Up(r - 12)
MathCos(x) == MathSin(x + 6)

\* R * 2 * Math.atan2(Math.sqrt(a), Math.sqrt(1 - a)) with R = 6371, for the
\* values of a (in units of 1/10^8) that arise, rounded to kilometres.
\* Math.sqrt of a negative number is NaN, and so is everything computed
\* from it.
EarthRadiusKm == 6371
ArcKm(a) ==
    IF a > 100000000 THEN NaN
    ELSE JNum(CASE a = 0 -> 0
                [] a = 6760000 -> 3351
                [] a = 25000000 -> 6672
                [] a = 38155329 -> 8484
                [] a = 50410000 -> 10060
                [] a = 50616700 -> 10086
                [] a = 63155329 -> 11704
                [] a = 75690000 -> 13445
                [] a = 93760000 -> 16798
                [] a = 100000000 -> (EarthRadiusKm * 314159) \div 100000)

calculateDistance(lat1, lng1, lat2, lng2) ==
    LET dLat == toRadian(lat2 - lat1)
        dLng == toRadian(lng2 - lng1)
        a == MathSin(dLat \div 2) * MathSin(dLat \div 2) * 10000
             + MathCos(toRadian(lat1)) * MathCos(toRadian(lat2))
               * MathSin(dLng \div 2) * MathSin(dLng \div 2)
    IN  ArcKm(a)

\* The options getCurrentLocation passes with its request.
LocationTimeoutMs == 10000
LocationMaxAgeMs == 60000
PositionOptions ==
    [enableHighAccuracy |-> TRUE, timeout |-> LocationTimeoutMs,
     maximumAge |-> LocationMaxAgeMs]

\* reject({ code: 0, message: ... }) of a browser without navigator.geolocation.
LocationUnsupported ==
    [ok |-> FALSE, code |-> 0, message |-> "Geolocation is not supported by this browser."]

\* The success callback of getCurrentLocation: resolve({ ... }) at time t.
LocationResolved(position, t) ==
    [ok |-> TRUE,
     latitude |-> position.coords.latitude,
     longitude |-> position.coords.longitude,
     accuracy |-> position.coords.accuracy,
     timestamp |-> t]

\* The error callback of getCurrentLocation: reject({ code, message }).
LocationRejected(error) ==
    [ok |-> FALSE, code |-> error.code, message |-> getLocationErrorMessage(error.code)]

(***************************************************************************)
(* Inputs of the API calls                                                 *)
(***************************************************************************)
CollectorIds == {<<"c", "1">>, <<"c", "2">>}
UserIds == {<<"u", "1">>, <<"u", "2">>}
Fix == [lat |-> 12, lng |-> 77]     \* a position the device reports

LogPayloads ==
    { [collector_id |-> <<"c", "1">>, user_id |-> <<"u", "1">>, waste_type |-> "Dry",
       timestamp |-> 0, latitude |-> 12, longitude |-> 77],
      [collector_id |-> <<"c", "2">>, user_id |-> <<"u", "2">>, waste_type |-> "Wet",
       timestamp |-> 0, latitude |-> 0, longitude |-> 0, notes |-> None] }

ReportPayloads ==
    { [collector_id |-> <<"c", "1">>, description |-> None, photo_base64 |-> None,
       timestamp |-> 0, latitude |-> 12, longitude |-> 77, status |-> "Pending"],
      [collector_id |-> <<"c", "2">>, description |-> Some(<<"d">>), photo_base64 |-> None,
       timestamp |-> 0, latitude |-> 0, longitude |-> 0, status |-> "Verified"] }

ScanInputs == { [userId |-> <<"u", "1">>, location |-> None],
                [userId |-> <<"u", "2">>, location |-> Some(Fix)] }

ScanIds == { MakeId("scan", t, r) : t \in 0..MaxTime, r \in Rands }

\* collectorId as a caller may pass it: left out, the empty string, or an id.
QueryIds == {None, Some(EmptyString), Some(<<"c", "1">>), Some(<<"c", "2">>)}

NoCall == [op |-> "none"]

NumRecords(ls) ==
    Len(LocalStorage_getCollectionLogs(ls))
    + Len(LocalStorage_getIllegalDumpingReports(ls))
    + Len(ScanHistoryManager_getHistory(ls))

\* The entries of a sequence, as a set.
Range(seq) == { seq[i] : i \in 1..Len(seq) }

(***************************************************************************)
(* The API, called in any order                                            *)
(***************************************************************************)
\* The state each component starts from when it is mounted.
IndexInit == [activeView |-> "dashboard", showWasteSelector |-> FALSE,
              scannedUserId |-> None, scanLocation |-> None]
ScannerInit == [isScanning |-> TRUE, error |-> None, isProcessing |-> FALSE,
                hasCameraPermission |-> "null", restartTimer |-> FALSE]
FormInit == [location |-> None, photo |-> FALSE, isSubmitting |-> FALSE,
             isGettingLocation |-> FALSE]
DashboardInit ==
    [recentLogs |-> <<>>, recentReports |-> <<>>,
     stats |-> [totalScans |-> 0, totalReports |-> 0, todayScans |-> 0, pendingReports |-> 0]]

\* No utility call is under way.
NoUtilCall == [fn |-> "none"]

\* The program before anything ran.
ProgramInit ==
    /\ localStorage = [k \in Keys |-> Absent]
    /\ now = 0
    /\ lastCall = NoCall
    /\ returnedLogs = {}
    /\ markedScans = {}
    /\ currentCollector = None
    /\ index = IndexInit
    /\ scanner = ScannerInit
    /\ form = FormInit
    /\ dashboard = DashboardInit
    /\ pendingScans = <<>>
    /\ pendingLocations = <<>>
    /\ pendingSubmits = <<>>
    /\ lastToast = "none"
    /\ scanStats = [decoded |-> {}, accepted |-> 0, dropped |-> 0]
    /\ successCalls = <<>>
    /\ formFixes = {}
    /\ lastSubmit = None

Init ==
    /\ ProgramInit
    /\ utilCall = NoUtilCall

\* Time passes.
Tick ==
    /\ now < MaxTime
    /\ now' = now + 1
    /\ UNCHANGED <<localStorage, apiVars, utilVars, uiVars>>

Login(collectorId) ==
    /\ LET res == CollectorAPI_login(localStorage, collectorId)
       IN  /\ localStorage' = res.store
           /\ lastCall' = [op |-> "login", arg |-> collectorId, val |-> res.ret]
    /\ UNCHANGED <<now, returnedLogs, markedScans, uiVars, utilVars>>

Logout ==
    /\ localStorage' = CollectorAPI_logout(localStorage)
    /\ lastCall' = [op |-> "logout"]
    /\ UNCHANGED <<now, returnedLogs, markedScans, uiVars, utilVars>>

GetCurrentCollector ==
    /\ lastCall' = [op |-> "getCurrentCollector",
                    val |-> CollectorAPI_getCurrentCollector(localStorage)]
    /\ UNCHANGED <<localStorage, now, returnedLogs, markedScans, uiVars, utilVars>>

LogCollection(data, r) ==
    /\ NumRecords(localStorage) < MaxRecords
    /\ LET res == CollectorAPI_logCollection(localStorage, data, now, r)
       IN  /\ localStorage' = res.store
           /\ lastCall' = [op |-> "logCollection", arg |-> data, val |-> res.ret]
           /\ returnedLogs' = returnedLogs \cup {res.ret}
    /\ UNCHANGED <<now, markedScans, uiVars, utilVars>>

GetCollectionLogs(collectorId) ==
    /\ lastCall' = [op |-> "getCollectionLogs", arg |-> collectorId,
                    val |-> CollectorAPI_getCollectionLogs(localStorage, collectorId)]
    /\ UNCHANGED <<localStorage, now, returnedLogs, markedScans, uiVars, utilVars>>

ReportIllegalDumping(data, r) ==
    /\ NumRecords(localStorage) < MaxRecords
    /\ LET res == CollectorAPI_reportIllegalDumping(localStorage, data, now, r)
       IN  /\ localStorage' = res.store
           /\ lastCall' = [op |-> "reportIllegalDumping", arg |-> data, val |-> res.ret]
    /\ UNCHANGED <<now, returnedLogs, markedScans, uiVars, utilVars>>

GetDumpingReports(collectorId) ==
    /\ lastCall' = [op |-> "getDumpingReports", arg |-> collectorId,
                    val |-> CollectorAPI_getDumpingReports(localStorage, collectorId)]
    /\ UNCHANGED <<localStorage, now, returnedLogs, markedScans, uiVars, utilVars>>

AddScan(in, r) ==
    /\ NumRecords(localStorage) < MaxRecords
    /\ LET res == ScanHistoryManager_addScan(localStorage, in.userId, in.location, now, r)
       IN  /\ localStorage' = res.store
           /\ lastCall' = [op |-> "addScan", arg |-> in, val |-> res.ret]
    /\ UNCHANGED <<now, returnedLogs, markedScans, uiVars, utilVars>>

GetHistory ==
    /\ lastCall' = [op |-> "getHistory",
                    val |-> ScanHistoryManager_getHistory(localStorage)]
    /\ UNCHANGED <<localStorage, now, returnedLogs, markedScans, uiVars, utilVars>>

GetUnsyncedScans ==
    /\ lastCall' = [op |-> "getUnsyncedScans",
                    val |-> ScanHistoryManager_getUnsyncedScans(localStorage)]
    /\ UNCHANGED <<localStorage, now, returnedLogs, markedScans, uiVars, utilVars>>

MarkAsSynced(scanId) ==
    /\ localStorage' = ScanHistoryManager_markAsSynced(localStorage, scanId)
    /\ lastCall' = [op |-> "markAsSynced", arg |-> scanId]
    /\ markedScans' = markedScans \cup
            { e \in Range(ScanHistoryManager_getHistory(localStorage)) : e.id = scanId }
    /\ UNCHANGED <<now, returnedLogs, uiVars, utilVars>>

ClearSyncedScans ==
    /\ localStorage' = ScanHistoryManager_clearSyncedScans(localStorage)
    /\ lastCall' = [op |-> "clearSyncedScans"]
    /\ markedScans' = {}
    /\ UNCHANGED <<now, returnedLogs, uiVars, utilVars>>

Next ==
    \/ Tick
    \/ \E c \in CollectorIds : Login(c)
    \/ Logout
    \/ GetCurrentCollector
    \/ \E data \in LogPayloads, r \in Rands : LogCollection(data, r)
    \/ \E c \in QueryIds : GetCollectionLogs(c)
    \/ \E data \in ReportPayloads, r \in Rands : ReportIllegalDumping(data, r)
    \/ \E c \in QueryIds : GetDumpingReports(c)
    \/ \E in \in ScanInputs, r \in Rands : AddScan(in, r)
    \/ GetHistory
    \/ GetUnsyncedScans
    \/ \E id \in ScanIds : MarkAsSynced(id)
    \/ ClearSyncedScans

Spec == Init /\ [][Next]_vars

(***************************************************************************)
(* Inputs of the app                                                       *)
(***************************************************************************)
\* Texts typed into the Collector ID field.
LoginTexts == { EmptyString, <<" ">>, <<"c", "1">>, <<" ", "c", "2", " ">> }

\* Texts the QR reader decodes from the camera image.
ScanTexts ==
    { <<>>,
      SwachhPrefix \o <<"u", "1">>,
      <<"{", "\"", "u", "s", "e", "r", "I", "d", "\"", ":", "\"", "u", "2", "\"", "}">> }

\* Two of the four waste types of the selector.
WasteTypes == {"Dry", "Other"}

\* Texts typed into the description field.
Descriptions == { <<>>, <<" ", "d">> }

\* reader.result of convertFileToBase64: a data URL.
PhotoData == <<"d", "a", "t", "a", ":">>

\* error.name of a rejected getUserMedia().
CameraErrors == {"NotAllowedError", "NotFoundError"}

\* How a getCurrentLocation() promise settles (location.ts).
LocationOutcomes ==
    { [ok |-> TRUE, latitude |-> Fix.lat, longitude |-> Fix.lng] }
    \cup { [ok |-> FALSE, code |-> c, message |-> getLocationErrorMessage(c)] : c \in {1, 3} }

NumPending == Len(pendingScans) + Len(pendingLocations) + Len(pendingSubmits)

\* seq without its i-th element.
RemoveAt(seq, i) == SubSeq(seq, 1, i - 1) \o SubSeq(seq, i + 1, Len(seq))

(***************************************************************************)
(* Mounting and unmounting: a state setter of an unmounted component       *)
(* changes nothing, so a pending call remembers whether its component      *)
(* instances are still mounted.                                            *)
(***************************************************************************)
ScannerGone(ps) == [i \in 1..Len(ps) |-> [ps[i] EXCEPT !.scannerAlive = FALSE]]
FormGone(ps) == [i \in 1..Len(ps) |-> [ps[i] EXCEPT !.formAlive = FALSE]]
ScansIndexGone(ps) ==
    [i \in 1..Len(ps) |-> [ps[i] EXCEPT !.scannerAlive = FALSE, !.indexAlive = FALSE]]
SubmitsIndexGone(ps) ==
    [i \in 1..Len(ps) |-> [ps[i] EXCEPT !.formAlive = FALSE, !.indexAlive = FALSE]]

\* Index renders QRScanner only for activeView 'scanner' and ReportDumping
\* only for 'report' (Index.tsx, the JSX of the return statement).
ScannerAfter(old, new, sc) == IF old = "scanner" /\ new = "scanner" THEN sc ELSE ScannerInit
FormAfter(old, new, f) == IF old = "report" /\ new = "report" THEN f ELSE FormInit
ScansAfter(old, new, ps) == IF old = "scanner" /\ new # "scanner" THEN ScannerGone(ps) ELSE ps
FormCallsAfter(old, new, ps) == IF old = "report" /\ new # "report" THEN FormGone(ps) ELSE ps
FixesAfter(old, new, fixes) == IF old = "report" /\ new = "report" THEN fixes ELSE {}

(***************************************************************************)
(* Dashboard (the first component of Dashboard.tsx)                        *)
(***************************************************************************)
MsPerDay == 86400000

\* today.setHours(0, 0, 0, 0)
StartOfDay(t) == t - (t % MsPerDay)

\* sorted, most recent first, with rec put behind the records as recent as it.
RECURSIVE InsertByTime(_, _)
InsertByTime(sorted, rec) ==
    IF sorted = <<>> THEN <<rec>>
    ELSE IF sorted[1].timestamp >= rec.timestamp
         THEN <<sorted[1]>> \o InsertByTime(Tail(sorted), rec)
         ELSE <<rec>> \o sorted

\* list.sort((a, b) => new Date(b.timestamp).getTime() - new Date(a.timestamp).getTime())
RECURSIVE SortByTimeDesc(_)
SortByTimeDesc(list) ==
    IF list = <<>> THEN <<>>
    ELSE InsertByTime(SortByTimeDesc(SubSeq(list, 1, Len(list) - 1)), list[Len(list)])

\* list.slice(0, n)
Slice0(list, n) == SubSeq(list, 1, IF Len(list) < n THEN Len(list) ELSE n)

\* The state loadData sets for collectorId at time t.
loadData(ls, collectorId, t) ==
    LET logs == CollectorAPI_getCollectionLogs(ls, Some(collectorId))
        reports == CollectorAPI_getDumpingReports(ls, Some(collectorId))
        IsToday(log) == log.timestamp >= StartOfDay(t)
        IsPending(report) == report.status = "Pending"
    IN  [recentLogs |-> Slice0(SortByTimeDesc(logs), 5),
         recentReports |-> Slice0(SortByTimeDesc(reports), 5),
         stats |-> [totalScans |-> Len(logs),
                    totalReports |-> Len(reports),
                    todayScans |-> Len(SelectSeq(logs, IsToday)),
                    pendingReports |-> Len(SelectSeq(reports, IsPending))]]

\* Index renders Dashboard only for activeView 'dashboard'; the effect of a
\* newly mounted Dashboard runs loadData.
DashboardAfter(old, new, d, ls, collectorId, t) ==
    IF new # "dashboard" THEN DashboardInit
    ELSE IF old = "dashboard" THEN d
    ELSE loadData(ls, collectorId, t)

(***************************************************************************)
(* App.tsx                                                                 *)
(***************************************************************************)
\* The page is (re)loaded: every component starts afresh, what was pending
\* is gone, and the mount effect of App reads the persisted collector.
AppMount ==
    /\ currentCollector' =
          LET collector == CollectorAPI_getCurrentCollector(localStorage)
          IN  IF collector.some THEN Some(collector.v.id) ELSE None
    /\ index' = IndexInit
    /\ scanner' = ScannerInit
    /\ form' = FormInit
    /\ pendingScans' = <<>>
    /\ pendingLocations' = <<>>
    /\ pendingSubmits' = <<>>
    /\ formFixes' = {}
    /\ dashboard' =
          LET collector == CollectorAPI_getCurrentCollector(localStorage)
          IN  IF collector.some THEN loadData(localStorage, collector.v.id, now)
              ELSE DashboardInit
    /\ scanStats' = [scanStats EXCEPT !.dropped = @ + Len(pendingScans)]
    /\ UNCHANGED <<localStorage, now, apiVars, utilVars, lastToast, successCalls, lastSubmit>>

\* handleLogout, the onLogout of Index.
HandleLogout ==
    /\ currentCollector.some
    /\ localStorage' = CollectorAPI_logout(localStorage)
    /\ currentCollector' = None
    /\ dashboard' = DashboardInit
    /\ index' = IndexInit
    /\ scanner' = ScannerInit
    /\ form' = FormInit
    /\ pendingScans' = ScansIndexGone(pendingScans)
    /\ pendingLocations' = FormGone(pendingLocations)
    /\ pendingSubmits' = SubmitsIndexGone(pendingSubmits)
    /\ formFixes' = {}
    /\ UNCHANGED <<now, apiVars, utilVars, lastToast, scanStats, successCalls, lastSubmit>>

(***************************************************************************)
(* Login.tsx                                                               *)
(***************************************************************************)
\* handleLogin with the text of the Collector ID field; handleLogin of App
\* is its onLogin.
HandleLogin(text) ==
    /\ ~currentCollector.some
    /\ IF Trim(text) = EmptyString
       THEN /\ lastToast' = "Error"
            /\ UNCHANGED <<localStorage, currentCollector, dashboard>>
       ELSE LET res == CollectorAPI_login(localStorage, Trim(text))
            IN  /\ localStorage' = res.store
                /\ lastToast' = "Welcome!"
                /\ currentCollector' = Some(res.ret.id)
                /\ dashboard' = loadData(res.store, res.ret.id, now)
    /\ UNCHANGED <<now, apiVars, utilVars, index, scanner, form, pendingScans, pendingLocations,
                   pendingSubmits, scanStats, successCalls, formFixes, lastSubmit>>

(***************************************************************************)
(* Index.tsx                                                               *)
(***************************************************************************)
\* setActiveView(view): the bottom navigation, and the onClose of the
\* scanner and of the report form with view = 'dashboard'.
SetActiveView(view) ==
    /\ currentCollector.some
    /\ view # index.activeView
    /\ index' = [index EXCEPT !.activeView = view]
    /\ scanner' = ScannerAfter(index.activeView, view, scanner)
    /\ form' = FormAfter(index.activeView, view, form)
    /\ dashboard' = DashboardAfter(index.activeView, view, dashboard, localStorage,
                                   currentCollector.v, now)
    /\ pendingScans' = ScansAfter(index.activeView, view, pendingScans)
    /\ pendingLocations' = FormCallsAfter(index.activeView, view, pendingLocations)
    /\ pendingSubmits' = FormCallsAfter(index.activeView, view, pendingSubmits)
    /\ formFixes' = FixesAfter(index.activeView, view, formFixes)
    /\ UNCHANGED <<localStorage, now, apiVars, utilVars, currentCollector, lastToast,
                   scanStats, successCalls, lastSubmit>>

\* handleScanSuccess(userId, location) on a mounted Index.
handleScanSuccess(ix, userId, location) ==
    [activeView |-> "dashboard", showWasteSelector |-> TRUE,
     scannedUserId |-> Some(userId), scanLocation |-> location]

\* Slip: both coordinates are read from lat.
CoordinateOrZero_lat(location, axis) ==
    IF location.some /\ location.v.lat # 0 THEN location.v.lat ELSE 0

\* scanLocation?.lat || 0
CoordinateOrZero(location, axis) ==
    IF location.some /\ location.v[axis] # 0 THEN location.v[axis] ELSE 0

\* handleWasteTypeSelect(wasteType), from a button of the waste type selector.
HandleWasteTypeSelect(wasteType, r) ==
    /\ UNCHANGED dashboard
    /\ currentCollector.some
    /\ index.showWasteSelector
    /\ NumRecords(localStorage) + Len(pendingSubmits) < MaxWrites
    /\ IF ~(index.scannedUserId.some /\ Truthy(index.scannedUserId.v))
       THEN UNCHANGED <<localStorage, index, lastToast>>
       ELSE LET data == [collector_id |-> currentCollector.v,
                         user_id |-> index.scannedUserId.v,
                         waste_type |-> wasteType,
                         timestamp |-> now,
                         latitude |-> CoordinateOrZero(index.scanLocation, "lat"),
                         longitude |-> CoordinateOrZero(index.scanLocation, "lng")]
            IN  /\ localStorage' = CollectorAPI_logCollection(localStorage, data, now, r).store
                /\ lastToast' = "Collection Logged!"
                /\ index' = [index EXCEPT !.showWasteSelector = FALSE,
                                          !.scannedUserId = None,
                                          !.scanLocation = None]
    /\ UNCHANGED <<now, apiVars, utilVars, currentCollector, scanner, form, pendingScans,
                   pendingLocations, pendingSubmits, scanStats, successCalls,
                   formFixes, lastSubmit>>

(***************************************************************************)
(* QRScanner (the second component of Dashboard.tsx)                       *)
(***************************************************************************)
ScannerMounted == currentCollector.some /\ index.activeView = "scanner"

\* checkCameraPermission of the mount effect: getUserMedia() resolves.
CameraGranted ==
    /\ UNCHANGED dashboard
    /\ ScannerMounted
    /\ scanner.hasCameraPermission = "null"
    /\ scanner' = [scanner EXCEPT !.hasCameraPermission = "true", !.error = None]
    /\ UNCHANGED <<localStorage, now, apiVars, utilVars, currentCollector, index, form, pendingScans,
                   pendingLocations, pendingSubmits, lastToast, scanStats, successCalls,
                   formFixes, lastSubmit>>

\* checkCameraPermission of the mount effect: getUserMedia() rejects.
CameraDenied(name) ==
    /\ UNCHANGED dashboard
    /\ ScannerMounted
    /\ scanner.hasCameraPermission = "null"
    /\ scanner' = [scanner EXCEPT !.hasCameraPermission = "false",
                                  !.error = Some(getScannerErrorMessage(name))]
    /\ UNCHANGED <<localStorage, now, apiVars, utilVars, currentCollector, index, form, pendingScans,
                   pendingLocations, pendingSubmits, lastToast, scanStats, successCalls,
                   formFixes, lastSubmit>>

\* The error screen is shown instead of the reader.
ErrorScreen(sc) == sc.hasCameraPermission = "false" \/ sc.error.some

\* resetScanner, the Retry button of the error screen.
ResetScanner ==
    /\ UNCHANGED dashboard
    /\ ScannerMounted
    /\ ErrorScreen(scanner)
    /\ scanner' = [scanner EXCEPT !.error = None, !.isScanning = FALSE, !.restartTimer = TRUE]
    /\ UNCHANGED <<localStorage, now, apiVars, utilVars, currentCollector, index, form, pendingScans,
                   pendingLocations, pendingSubmits, lastToast, scanStats, successCalls,
                   formFixes, lastSubmit>>

\* The 500 ms timer of resetScanner fires.
RestartTimerFires ==
    /\ UNCHANGED dashboard
    /\ ScannerMounted
    /\ scanner.restartTimer
    /\ scanner' = [scanner EXCEPT !.isScanning = TRUE, !.restartTimer = FALSE]
    /\ UNCHANGED <<localStorage, now, apiVars, utilVars, currentCollector, index, form, pendingScans,
                   pendingLocations, pendingSubmits, lastToast, scanStats, successCalls,
                   formFixes, lastSubmit>>

\* Slip: a result is taken up also while another one is processed.
ScanAccepted_always(sc, text) == text # EmptyString

\* handleScan takes the result: it is not null and nothing is being processed.
ScanAccepted(sc, text) == text # EmptyString /\ ~sc.isProcessing

\* scanResult.isValid && scanResult.userId
Decodes(text) == parseQRCode(text).isValid /\ Truthy(parseQRCode(text).userId)

\* onResult of QrReader with a result whose text is `text`; handleScan up to
\* its await, or to its end when it does not await.
HandleScan(text) ==
    /\ UNCHANGED dashboard
    /\ ScannerMounted
    /\ scanner.hasCameraPermission = "true"
    /\ ~ErrorScreen(scanner)
    /\ scanner.isScanning
    /\ LET taken == ScanAccepted(scanner, text)
           located == taken /\ Decodes(text)
       IN  /\ located => NumPending < MaxPending /\ scanStats.accepted < MaxScans
           /\ scanStats' = [scanStats EXCEPT
                    !.decoded = IF Decodes(text) THEN @ \cup {parseQRCode(text).userId} ELSE @,
                    !.accepted = IF located THEN @ + 1 ELSE @]
           /\ scanner' = [scanner EXCEPT !.isProcessing = IF taken THEN located ELSE @]
           /\ pendingScans' =
                IF located
                THEN Append(pendingScans, [userId |-> parseQRCode(text).userId,
                                           scannerAlive |-> TRUE, indexAlive |-> TRUE])
                ELSE pendingScans
           /\ lastToast' = IF taken /\ ~located THEN "Invalid QR Code" ELSE lastToast
    /\ UNCHANGED <<localStorage, now, apiVars, utilVars, currentCollector, index, form,
                   pendingLocations, pendingSubmits, successCalls, formFixes, lastSubmit>>

\* handleScan calling onScanSuccess only when the location was obtained.
ScanSuccessCall_needsLocation(userId, outcome) ==
    [userId |-> IF outcome.ok THEN userId ELSE JUndefined,
     location |-> IF outcome.ok
                  THEN Some([lat |-> outcome.latitude, lng |-> outcome.longitude])
                  ELSE None]

\* The arguments handleScan passes to onScanSuccess for a settled request.
ScanSuccessCall(userId, outcome) ==
    [userId |-> userId,
     location |-> IF outcome.ok
                  THEN Some([lat |-> outcome.latitude, lng |-> outcome.longitude])
                  ELSE None]

\* The getCurrentLocation() of pending handleScan call i settles: the rest
\* of handleScan, with handleScanSuccess of Index as onScanSuccess.
ScanLocationSettles(i, outcome) ==
    /\ i \in 1..Len(pendingScans)
    /\ LET p == pendingScans[i]
           call == ScanSuccessCall(p.userId, outcome)
           rest == RemoveAt(pendingScans, i)
           old == index.activeView
           processed == IF p.scannerAlive THEN [scanner EXCEPT !.isProcessing = FALSE]
                        ELSE scanner
       IN  /\ lastToast' = "QR Code Scanned!"
           /\ successCalls' = Append(successCalls, call)
           /\ IF p.indexAlive
              THEN /\ index' = handleScanSuccess(index, call.userId, call.location)
                   /\ scanner' = ScannerAfter(old, "dashboard", processed)
                   /\ form' = FormAfter(old, "dashboard", form)
                   /\ dashboard' = DashboardAfter(old, "dashboard", dashboard,
                                                  localStorage, currentCollector.v, now)
                   /\ pendingScans' = ScansAfter(old, "dashboard", rest)
                   /\ pendingLocations' = FormCallsAfter(old, "dashboard", pendingLocations)
                   /\ pendingSubmits' = FormCallsAfter(old, "dashboard", pendingSubmits)
                   /\ formFixes' = FixesAfter(old, "dashboard", formFixes)
              ELSE /\ pendingScans' = rest
                   /\ scanner' = processed
                   /\ UNCHANGED <<index, form, dashboard, pendingLocations,
                                  pendingSubmits, formFixes>>
    /\ UNCHANGED <<localStorage, now, apiVars, utilVars, currentCollector, scanStats, lastSubmit>>

(***************************************************************************)
(* ReportDumping.tsx                                                       *)
(***************************************************************************)
FormMounted == currentCollector.some /\ index.activeView = "report"

\* handlePhotoCapture with a file chosen.
HandlePhotoCapture ==
    /\ UNCHANGED dashboard
    /\ FormMounted
    /\ ~form.photo
    /\ form' = [form EXCEPT !.photo = TRUE]
    /\ UNCHANGED <<localStorage, now, apiVars, utilVars, currentCollector, index, scanner, pendingScans,
                   pendingLocations, pendingSubmits, lastToast, scanStats, successCalls,
                   formFixes, lastSubmit>>

\* The button that removes the chosen photo.
RemovePhoto ==
    /\ UNCHANGED dashboard
    /\ FormMounted
    /\ form.photo
    /\ form' = [form EXCEPT !.photo = FALSE]
    /\ UNCHANGED <<localStorage, now, apiVars, utilVars, currentCollector, index, scanner, pendingScans,
                   pendingLocations, pendingSubmits, lastToast, scanStats, successCalls,
                   formFixes, lastSubmit>>

\* getLocation up to its await; the button is rendered while no location
\* is captured and disabled while a request is running.
GetLocation ==
    /\ UNCHANGED dashboard
    /\ FormMounted
    /\ ~form.location.some
    /\ ~form.isGettingLocation
    /\ NumPending < MaxPending
    /\ form' = [form EXCEPT !.isGettingLocation = TRUE]
    /\ pendingLocations' = Append(pendingLocations, [formAlive |-> TRUE])
    /\ UNCHANGED <<localStorage, now, apiVars, utilVars, currentCollector, index, scanner, pendingScans,
                   pendingSubmits, lastToast, scanStats, successCalls, formFixes, lastSubmit>>

\* A getLocation that falls back to a default position when its request fails.
LocationAfter_default(location, outcome) ==
    IF outcome.ok THEN Some([lat |-> outcome.latitude, lng |-> outcome.longitude])
    ELSE Some([lat |-> 0, lng |-> 0])

\* The location state of the form after its request settled.
LocationAfter(location, outcome) ==
    IF outcome.ok THEN Some([lat |-> outcome.latitude, lng |-> outcome.longitude])
    ELSE location

\* The getCurrentLocation() of pending getLocation call i settles.
GetLocationSettles(i, outcome) ==
    /\ UNCHANGED dashboard
    /\ i \in 1..Len(pendingLocations)
    /\ pendingLocations' = RemoveAt(pendingLocations, i)
    /\ lastToast' = IF outcome.ok THEN "Location Captured" ELSE "Location Error"
    /\ IF pendingLocations[i].formAlive
       THEN /\ form' = [form EXCEPT !.location = LocationAfter(form.location, outcome),
                                    !.isGettingLocation = FALSE]
            /\ formFixes' = IF outcome.ok
                            THEN formFixes \cup {[lat |-> outcome.latitude,
                                                  lng |-> outcome.longitude]}
                            ELSE formFixes
       ELSE UNCHANGED <<form, formFixes>>
    /\ UNCHANGED <<localStorage, now, apiVars, utilVars, currentCollector, index, scanner, pendingScans,
                   pendingSubmits, scanStats, successCalls, lastSubmit>>

\* handleSubmit returns early: no location has been captured.
SubmitBlocked(f) == ~f.location.some

\* description.trim() || undefined
DescriptionOrUndefined(text) ==
    IF Trim(text) # EmptyString THEN Some(Trim(text)) ELSE None

\* Slip: the report is filed as already verified.
ReportData_verified(p, t) ==
    [collector_id |-> p.collectorId,
     description |-> DescriptionOrUndefined(p.description),
     photo_base64 |-> IF p.photo THEN Some(PhotoData) ELSE None,
     timestamp |-> t,
     latitude |-> p.location.v.lat,
     longitude |-> p.location.v.lng,
     status |-> "Verified"]

\* The report handleSubmit hands to reportIllegalDumping.
ReportData(p, t) ==
    [collector_id |-> p.collectorId,
     description |-> DescriptionOrUndefined(p.description),
     photo_base64 |-> IF p.photo THEN Some(PhotoData) ELSE None,
     timestamp |-> t,
     latitude |-> p.location.v.lat,
     longitude |-> p.location.v.lng,
     status |-> "Pending"]

\* handleSubmit from its call of reportIllegalDumping on, with
\* setActiveView('dashboard') of Index as onReportSubmitted.
FinishSubmit(p, r, rest) ==
    LET old == index.activeView
        store == CollectorAPI_reportIllegalDumping(localStorage, ReportData(p, now), now, r).store
    IN  /\ localStorage' = store
        /\ lastToast' = "Report Submitted"
        /\ lastSubmit' = Some([location |-> p.location, fixes |-> p.fixes])
        /\ IF p.indexAlive
           THEN /\ index' = [index EXCEPT !.activeView = "dashboard"]
                /\ scanner' = ScannerAfter(old, "dashboard", scanner)
                /\ form' = FormAfter(old, "dashboard",
                                     IF p.formAlive THEN [form EXCEPT !.isSubmitting = FALSE]
                                     ELSE form)
                /\ dashboard' = DashboardAfter(old, "dashboard", dashboard, store,
                                               currentCollector.v, now)
                /\ pendingScans' = ScansAfter(old, "dashboard", pendingScans)
                /\ pendingLocations' = FormCallsAfter(old, "dashboard", pendingLocations)
                /\ pendingSubmits' = FormCallsAfter(old, "dashboard", rest)
                /\ formFixes' = FixesAfter(old, "dashboard", formFixes)
           ELSE /\ pendingSubmits' = rest
                /\ UNCHANGED <<index, scanner, form, dashboard, pendingScans,
                               pendingLocations, formFixes>>

\* handleSubmit, from the submit event of the form, up to its first await
\* that suspends it: the photo encoding, when a photo is chosen.
HandleSubmit(description, r) ==
    /\ FormMounted
    /\ ~form.isSubmitting
    /\ LET p == [collectorId |-> currentCollector.v, location |-> form.location,
                 description |-> description, photo |-> form.photo,
                 formAlive |-> TRUE, indexAlive |-> TRUE, fixes |-> formFixes]
       IN  IF SubmitBlocked(form)
           THEN /\ lastToast' = "Location Required"
                /\ UNCHANGED <<localStorage, index, scanner, form, dashboard, pendingScans,
                               pendingLocations, pendingSubmits, formFixes, lastSubmit>>
           ELSE /\ NumRecords(localStorage) + Len(pendingSubmits) < MaxWrites
                /\ IF form.photo
                   THEN /\ NumPending < MaxPending
                        /\ form' = [form EXCEPT !.isSubmitting = TRUE]
                        /\ pendingSubmits' = Append(pendingSubmits, p)
                        /\ UNCHANGED <<localStorage, index, scanner, dashboard, pendingScans,
                                       pendingLocations, lastToast, formFixes, lastSubmit>>
                   ELSE FinishSubmit(p, r, pendingSubmits)
    /\ UNCHANGED <<now, apiVars, utilVars, currentCollector, scanStats, successCalls>>

\* convertFileToBase64() of pending handleSubmit call i resolves.
PhotoEncoded(i, r) ==
    /\ i \in 1..Len(pendingSubmits)
    /\ FinishSubmit(pendingSubmits[i], r, RemoveAt(pendingSubmits, i))
    /\ UNCHANGED <<now, apiVars, utilVars, currentCollector, scanStats, successCalls>>

\* convertFileToBase64() of pending handleSubmit call i rejects.
PhotoEncodingFails(i) ==
    /\ UNCHANGED dashboard
    /\ i \in 1..Len(pendingSubmits)
    /\ pendingSubmits' = RemoveAt(pendingSubmits, i)
    /\ lastToast' = "Submission Failed"
    /\ form' = IF pendingSubmits[i].formAlive THEN [form EXCEPT !.isSubmitting = FALSE]
               ELSE form
    /\ UNCHANGED <<localStorage, now, apiVars, utilVars, currentCollector, index, scanner, pendingScans,
                   pendingLocations, scanStats, successCalls, formFixes, lastSubmit>>

\* Time passes while the app runs.
ClockTick ==
    /\ now < MaxTime
    /\ now' = now + 1
    /\ UNCHANGED <<localStorage, apiVars, utilVars, uiVars>>

\* What the account part of the app does: time, page loads, login, logout.
SessionNext ==
    \/ ClockTick
    \/ AppMount
    \/ \E text \in LoginTexts : HandleLogin(text)
    \/ HandleLogout

\* The collector works the scanner: dashboard and QR scanner.
ScannerNext ==
    \/ SessionNext
    \/ \E view \in {"dashboard", "scanner"} : SetActiveView(view)
    \/ CameraGranted
    \/ \E name \in CameraErrors : CameraDenied(name)
    \/ ResetScanner
    \/ RestartTimerFires
    \/ \E text \in ScanTexts : HandleScan(text)
    \/ \E i \in 1..MaxPending, o \in LocationOutcomes : ScanLocationSettles(i, o)

\* The collector works the scan flow: scanner and waste type selector.
ScanNext ==
    \/ ScannerNext
    \/ \E w \in WasteTypes, r \in Rands : HandleWasteTypeSelect(w, r)

ScanSpec == Init /\ [][ScanNext]_vars

\* The collector works the report flow: dashboard and report form.
ReportNext ==
    \/ SessionNext
    \/ \E view \in {"dashboard", "report"} : SetActiveView(view)
    \/ HandlePhotoCapture
    \/ RemovePhoto
    \/ GetLocation
    \/ \E i \in 1..MaxPending, o \in LocationOutcomes : GetLocationSettles(i, o)
    \/ \E d \in Descriptions, r \in Rands : HandleSubmit(d, r)
    \/ \E i \in 1..MaxPending, r \in Rands : PhotoEncoded(i, r)
    \/ \E i \in 1..MaxPending : PhotoEncodingFails(i)

ReportSpec == Init /\ [][ReportNext]_vars

\* getCurrentLocation() passes timeout: 10000 to the Geolocation API, so the
\* oldest pending request of the scanner settles.
FairScannerSpec ==
    Init /\ [][ScannerNext]_vars
         /\ WF_vars(\E o \in LocationOutcomes : ScanLocationSettles(1, o))

(***************************************************************************)
(* The utility functions, each applied to an input chosen at the start     *)
(***************************************************************************)
QRAlphabet == {"u", "1", "0", " ", "{", "}", "[", "]", "\""}

\* The texts over QRAlphabet of at most n characters.
RECURSIVE TextsUpTo(_)
TextsUpTo(n) ==
    IF n = 0 THEN { <<>> }
    ELSE TextsUpTo(n - 1)
         \cup { Append(t, c) : t \in { x \in TextsUpTo(n - 1) : Len(x) = n - 1 }, c \in QRAlphabet }

ShortTexts == TextsUpTo(MaxTextLen)

DigitChar(d) ==
    CASE d = 0 -> "0" [] d = 1 -> "1" [] d = 2 -> "2" [] d = 3 -> "3" [] d = 4 -> "4"
      [] d = 5 -> "5" [] d = 6 -> "6" [] d = 7 -> "7" [] d = 8 -> "8" [] d = 9 -> "9"

\* String(n) for a natural number.
RECURSIVE NumText(_)
NumText(n) == IF n < 10 THEN <<DigitChar(n)>> ELSE NumText(n \div 10) \o <<DigitChar(n % 10)>>

\* The text of a string literal; the strings used hold no quote or backslash.
Quoted(str) == <<"\"">> \o str \o <<"\"">>

\* JSON.stringify(value), as a QR code generator writes a payload.
RECURSIVE JSONStringify(_)
RECURSIVE StringifyMembers(_)
RECURSIVE StringifyItems(_)
JSONStringify(v) ==
    CASE v.t = "string" -> Quoted(v.s)
      [] v.t = "number" -> NumText(v.n)
      [] v.t = "boolean" -> IF v.b THEN <<"t", "r", "u", "e">> ELSE <<"f", "a", "l", "s", "e">>
      [] v.t = "null" -> <<"n", "u", "l", "l">>
      [] v.t = "array" -> <<"[">> \o StringifyItems(v.items) \o <<"]">>
      [] v.t = "object" -> <<"{">> \o StringifyMembers(v.members) \o <<"}">>

StringifyMembers(ms) ==
    IF ms = <<>> THEN <<>>
    ELSE Quoted(ms[1].k) \o <<":">> \o JSONStringify(ms[1].v)
         \o (IF Len(ms) > 1 THEN <<",">> \o StringifyMembers(Tail(ms)) ELSE <<>>)

StringifyItems(items) ==
    IF items = <<>> THEN <<>>
    ELSE JSONStringify(items[1])
         \o (IF Len(items) > 1 THEN <<",">> \o StringifyItems(Tail(items)) ELSE <<>>)

\* Values a field of a payload may hold.
FieldValues ==
    { JStr(<<>>), JStr(<<"u", "1">>), JStr(<<"u", "2">>), JNum(0), JNum(42), JNull,
      JBool(FALSE), JBool(TRUE), JArr(<<>>), JArr(<<JNum(1)>>), JObj(<<>>) }

OtherKey == <<"n", "a", "m", "e">>

\* Payload objects of one and of two members.
PayloadObjects ==
    { JObj(<<[k |-> k, v |-> v]>>) : k \in {UserIdKey, User_idKey, OtherKey}, v \in FieldValues }
    \cup { JObj(<<[k |-> UserIdKey, v |-> v], [k |-> User_idKey, v |-> w]>>) :
              v \in FieldValues, w \in FieldValues }
    \cup { JObj(<<[k |-> OtherKey, v |-> JNum(1)], [k |-> User_idKey, v |-> w]>>) :
              w \in FieldValues }

JsonTexts == { JSONStringify(v) : v \in FieldValues \cup PayloadObjects }

\* The ids put behind the prefix.
PrefixedIds ==
    ShortTexts
    \cup { SwachhPrefix, SwachhPrefix \o <<"u">>, <<"u">> \o SwachhPrefix }
    \cup { JSONStringify(JObj(<<[k |-> UserIdKey, v |-> JStr(<<"u", "2">>)]>>)) }

\* The texts given to the decoder.
QRTexts ==
    ShortTexts
    \cup JsonTexts
    \cup { t \o <<"}">> : t \in JsonTexts }
    \cup { <<" ">> \o t \o <<" ">> : t \in JsonTexts }
    \cup { generateMockQRCode(id) : id \in PrefixedIds }

\* A text is chosen and nothing else has happened.
DecoderInit ==
    /\ ProgramInit
    /\ utilCall \in { [fn |-> "parseQRCode", arg |-> t, done |-> FALSE] : t \in QRTexts }

\* parseQRCode(qrText) runs.
ParseQRCode ==
    /\ utilCall.fn = "parseQRCode"
    /\ ~utilCall.done
    /\ utilCall' = [utilCall EXCEPT !.done = TRUE]
                    @@ ("val" :> parseQRCode(utilCall.arg))
    /\ UNCHANGED <<localStorage, now, apiVars, uiVars>>

DecoderNext == ParseQRCode

DecoderSpec == DecoderInit /\ [][DecoderNext]_vars

(***************************************************************************)
(* generateMockQRCode and parseQRCode, one after the other                 *)
(***************************************************************************)
\* The user ids a mock code is made for: some isValidUserId accepts, most
\* it does not.
MockUserIds ==
    PrefixedIds
    \cup { <<"u", "1", "0">>, <<"u", "-", "1">>, <<"U", "_", "2", "0">> }

RoundTripInit ==
    /\ ProgramInit
    /\ utilCall \in { [fn |-> "generateMockQRCode", arg |-> id, done |-> FALSE] :
                        id \in MockUserIds }

\* generateMockQRCode(userId) runs and its text is handed to parseQRCode.
GenerateMockQRCode ==
    /\ utilCall.fn = "generateMockQRCode"
    /\ utilCall' = [fn |-> "parseQRCode", arg |-> generateMockQRCode(utilCall.arg),
                    done |-> FALSE, mockOf |-> utilCall.arg]
    /\ UNCHANGED <<localStorage, now, apiVars, uiVars>>

RoundTripNext ==
    \/ GenerateMockQRCode
    \/ ParseQRCode

RoundTripSpec == RoundTripInit /\ [][RoundTripNext]_vars

(***************************************************************************)
(* getCurrentLocation, called once on every platform and answer            *)
(***************************************************************************)
\* GeolocationPosition objects the platform may deliver.
Positions ==
    { [coords |-> [latitude |-> la, longitude |-> lo, accuracy |-> a]] :
        la \in {-33, 0, 12}, lo \in {0, 77}, a \in {5, 50} }

\* GeolocationPositionError codes: 1, 2 and 3 are the standard ones.
PositionErrorCodes == 0..4

\* navigator.geolocation: missing, or present with the answer it will give
\* to the one request made.
Geolocations ==
    { [supported |-> FALSE] }
    \cup { [supported |-> TRUE, ok |-> TRUE, position |-> p] : p \in Positions }
    \cup { [supported |-> TRUE, ok |-> FALSE, error |-> [code |-> c]] : c \in PositionErrorCodes }

LocationInit ==
    /\ ProgramInit
    /\ utilCall \in { [fn |-> "getCurrentLocation", geolocation |-> g,
                        phase |-> "start", requests |-> <<>>] : g \in Geolocations }

\* getCurrentLocation() runs up to its return: it rejects at once without
\* navigator.geolocation, and otherwise issues one getCurrentPosition request.
GetCurrentLocation ==
    /\ utilCall.fn = "getCurrentLocation"
    /\ utilCall.phase = "start"
    /\ utilCall' =
          IF ~utilCall.geolocation.supported
          THEN [utilCall EXCEPT !.phase = "settled"] @@ ("val" :> LocationUnsupported)
          ELSE [utilCall EXCEPT !.phase = "pending",
                                !.requests = Append(@, PositionOptions)]
    /\ UNCHANGED <<localStorage, now, apiVars, uiVars>>

\* The platform calls the success callback.
PositionArrives ==
    /\ utilCall.fn = "getCurrentLocation"
    /\ utilCall.phase = "pending"
    /\ utilCall.geolocation.ok
    /\ utilCall' = [utilCall EXCEPT !.phase = "settled"]
                    @@ ("val" :> LocationResolved(utilCall.geolocation.position, now))
    /\ UNCHANGED <<localStorage, now, apiVars, uiVars>>

\* The platform calls the error callback.
PositionFails ==
    /\ utilCall.fn = "getCurrentLocation"
    /\ utilCall.phase = "pending"
    /\ ~utilCall.geolocation.ok
    /\ utilCall' = [utilCall EXCEPT !.phase = "settled"]
                    @@ ("val" :> LocationRejected(utilCall.geolocation.error))
    /\ UNCHANGED <<localStorage, now, apiVars, uiVars>>

LocationNext ==
    \/ GetCurrentLocation
    \/ PositionArrives
    \/ PositionFails
    \/ ClockTick

LocationSpec == LocationInit /\ [][LocationNext]_vars

(***************************************************************************)
(* calculateDistance, called once on every pair of points of a grid        *)
(***************************************************************************)
Latitudes == {-30, 0, 30}
Longitudes == {-90, 0, 90, 180}

DistanceInit ==
    /\ ProgramInit
    /\ utilCall \in { [fn |-> "calculateDistance", arg |-> <<lat1, lng1, lat2, lng2>>,
                        done |-> FALSE] :
                        lat1 \in Latitudes, lng1 \in Longitudes,
                        lat2 \in Latitudes, lng2 \in Longitudes }

\* calculateDistance(lat1, lng1, lat2, lng2) runs.
CalculateDistance ==
    /\ utilCall.fn = "calculateDistance"
    /\ ~utilCall.done
    /\ utilCall' = [utilCall EXCEPT !.done = TRUE]
                    @@ ("val" :> calculateDistance(utilCall.arg[1], utilCall.arg[2],
                                                   utilCall.arg[3], utilCall.arg[4]))
    /\ UNCHANGED <<localStorage, now, apiVars, uiVars>>

DistanceNext == CalculateDistance

DistanceSpec == DistanceInit /\ [][DistanceNext]_vars

(***************************************************************************)
(* Views of the stored partitions                                          *)
(***************************************************************************)
Logs == LocalStorage_getCollectionLogs(localStorage)
Reports == LocalStorage_getIllegalDumpingReports(localStorage)
History == ScanHistoryManager_getHistory(localStorage)
CurrentCollector == CollectorAPI_getCurrentCollector(localStorage)

IsPrefix(a, b) == Len(a) <= Len(b) /\ SubSeq(b, 1, Len(a)) = a

\* Some element of list has the properties of rec.
Contains(list, rec) == \E i \in 1..Len(list) : SameFields(list[i], rec)

\* C1: every record that logCollection returned is among the logs listed for
\* its collector_id, with the same id and fields, whatever ran before or after.
C1_LoggedRecordIsListed ==
    \A rec \in returnedLogs :
        Contains(CollectorAPI_getCollectionLogs(localStorage, Some(rec.collector_id)), rec)

\* Two logs of different collectors were created, then reports were listed.
C1_Witness ==
    /\ Cardinality(returnedLogs) = 2
    /\ Len(Logs) = 2
    /\ Logs[1].collector_id # Logs[2].collector_id
    /\ lastCall.op = "getDumpingReports"

\* C2: the log and report partitions only grow at the end: every step keeps
\* the records already stored, unchanged and in order.
C2_AppendOnly ==
    [][ /\ IsPrefix(Logs, Logs')
        /\ IsPrefix(Reports, Reports') ]_vars

\* A log and a report are stored and a logout ran after them.
C2_Witness ==
    /\ Len(Logs) = 1
    /\ Len(Reports) = 1
    /\ lastCall.op = "logout"

\* C3: a logout leaves no current collector, and only a login brings one back.
C3_LogoutClearsUntilLogin ==
    [][ /\ lastCall'.op = "logout" => ~CurrentCollector'.some
        /\ (~CurrentCollector.some /\ CurrentCollector'.some) => lastCall'.op = "login" ]_vars

\* Records were logged and the latest call was a logout.
C3_Witness ==
    /\ Len(Logs) = 2
    /\ lastCall.op = "logout"
    /\ ~CurrentCollector.some

\* The storage keys a step changed.
ChangedKeys == { k \in Keys : localStorage'[k] # localStorage[k] }

\* C4: each operation writes its own partition only.
C4_PartitionsIndependent ==
    [][ LET op == lastCall'.op IN
        /\ op \in {"login", "logout"} => ChangedKeys \subseteq {"current_collector"}
        /\ op = "logCollection" => ChangedKeys \subseteq {"collection_logs"}
        /\ op = "reportIllegalDumping" => ChangedKeys \subseteq {"dumping_reports"}
        /\ op \in {"addScan", "markAsSynced", "clearSyncedScans"}
              => ChangedKeys \subseteq {"scan_history"}
        /\ op \in {"getCurrentCollector", "getCollectionLogs", "getDumpingReports",
                   "getHistory", "getUnsyncedScans"} => ChangedKeys = {} ]_vars

\* All four partitions are present and the scan history was just cleared.
C4_Witness ==
    /\ \A k \in Keys : localStorage[k].has
    /\ Len(Logs) >= 1
    /\ Len(Reports) >= 1
    /\ lastCall.op = "clearSyncedScans"

\* C5: every log and report a step stores carries a non-empty collector_id,
\* the id of the collector persisted when the step runs; no step stores a
\* record while no collector is persisted.
C5_WritesCarrySession ==
    [][ /\ Len(Logs') > Len(Logs) =>
              /\ CurrentCollector.some
              /\ Logs'[Len(Logs')].collector_id = CurrentCollector.v.id
              /\ Logs'[Len(Logs')].collector_id # EmptyString
        /\ Len(Reports') > Len(Reports) =>
              /\ CurrentCollector.some
              /\ Reports'[Len(Reports')].collector_id = CurrentCollector.v.id
              /\ Reports'[Len(Reports')].collector_id # EmptyString ]_vars

\* A scan-history entry without its synced flag.
ScanIdentity(e) == [k \in (DOMAIN e) \ {"synced"} |-> e[k]]

\* C6: after markAsSynced(e.id) no entry e that was in the history is still
\* returned by getUnsyncedScans(), and the next clearSyncedScans() leaves no
\* such entry in getHistory().
C6_MarkedLeavesUnsyncedThenHistory ==
    [][ /\ lastCall'.op = "markAsSynced" =>
              \A e \in Range(History) :
                  e.id = lastCall'.arg =>
                      e \notin Range(ScanHistoryManager_getUnsyncedScans(localStorage'))
        /\ lastCall'.op = "clearSyncedScans" =>
              \A e \in markedScans :
                  \A f \in Range(History') : ScanIdentity(f) # ScanIdentity(e) ]_vars

\* Entry new is entry old, possibly marked synced since; never unmarked.
SameOrSynced(new, old) ==
    /\ ScanIdentity(new) = ScanIdentity(old)
    /\ old.synced => new.synced

\* The entries of a can be matched, in order, to entries of b they came from.
RECURSIVE Embeds(_, _)
Embeds(a, b) ==
    IF a = <<>> THEN TRUE
    ELSE IF b = <<>> THEN FALSE
    ELSE IF SameOrSynced(a[1], b[1]) THEN Embeds(Tail(a), Tail(b))
    ELSE Embeds(a, Tail(b))

\* C7: the synced flag is one-way. In every step the entries of the history
\* are entries of the history before, in order, none of them back from
\* synced to unsynced, except for one new entry at the end, created unsynced.
C7_SyncedIsOneWay ==
    [][ \/ Embeds(History', History)
        \/ /\ Len(History') = Len(History) + 1
           /\ Embeds(SubSeq(History', 1, Len(History)), History)
           /\ ~History'[Len(History')].synced ]_vars

\* A synced entry is followed by a later entry that got the same id.
C7_Witness ==
    /\ Len(History) = 2
    /\ History[1].synced
    /\ ~History[2].synced
    /\ History[1].id = History[2].id

\* C8: every step in which the scanner invokes onScanSuccess adds an entry
\* with that userId and synced = false to the scan history.
C8_SuccessfulScanIsRecorded ==
    [][ Len(successCalls') > Len(successCalls) =>
            /\ Len(History') = Len(History) + 1
            /\ History'[Len(History')].userId = successCalls'[Len(successCalls')].userId
            /\ ~History'[Len(History')].synced ]_vars

\* C9: the form holds a location only if a request of this form session
\* succeeded with it, so a failed request leaves the location null; while
\* the form holds no location and no earlier submission is still encoding
\* its photo, no step stores a report; and every report a step stores was
\* submitted with a location present and carries the coordinates of a fix
\* its form session obtained before the submission.
C9_ReportsCarryFormFix ==
    [][ /\ form'.location.some => form'.location.v \in formFixes'
        /\ (SubmitBlocked(form) /\ pendingSubmits = <<>>) => Reports' = Reports
        /\ Len(Reports') > Len(Reports) =>
              /\ lastSubmit'.some
              /\ lastSubmit'.v.location.some
              /\ \E fix \in lastSubmit'.v.fixes :
                    /\ Reports'[Len(Reports')].latitude = fix.lat
                    /\ Reports'[Len(Reports')].longitude = fix.lng ]_vars

\* A report is stored, and in a later form session a location request has
\* failed: the form holds no location.
C9_Witness ==
    /\ Len(Reports) = 1
    /\ Reports[1].latitude = Fix.lat
    /\ FormMounted
    /\ lastToast = "Location Error"
    /\ ~form.isGettingLocation
    /\ SubmitBlocked(form)

\* The userIds of the pending handleScan calls.
PendingUserIds(ps) == [i \in 1..Len(ps) |-> ps[i].userId]

C11_DashboardShowsStoredTotals ==
    [][ ( /\ Len(Logs') > Len(Logs) \/ Len(Reports') > Len(Reports)
          /\ currentCollector'.some
          /\ index'.activeView = "dashboard" )
        => /\ dashboard'.stats.totalScans
                = Len(CollectorAPI_getCollectionLogs(localStorage', currentCollector'))
           /\ dashboard'.stats.totalReports
                = Len(CollectorAPI_getDumpingReports(localStorage', currentCollector')) ]_vars

\* parseQRCode has run on the chosen text.
Decoded == utilCall.fn = "parseQRCode" /\ utilCall.done

\* The text is SWACHH_USER_<id> with a non-empty id.
HasPrefixForm(text) ==
    /\ Len(text) > Len(SwachhPrefix)
    /\ SubSeq(text, 1, Len(SwachhPrefix)) = SwachhPrefix

IdBehindPrefix(text) == SubSeq(text, Len(SwachhPrefix) + 1, Len(text))

\* C12: for every text SWACHH_USER_<id> with a non-empty id, parseQRCode
\* returns isValid = true, the text itself, and exactly id as userId.
C12_PrefixedIdIsReturned ==
    (Decoded /\ HasPrefixForm(utilCall.arg)) =>
        /\ utilCall.val.isValid
        /\ utilCall.val.text = utilCall.arg
        /\ utilCall.val.userId = JStr(IdBehindPrefix(utilCall.arg))

\* The id behind the prefix itself ends with SWACHH_USER_.
C12_Witness ==
    /\ Decoded
    /\ utilCall.arg = SwachhPrefix \o <<"u">> \o SwachhPrefix
    /\ utilCall.val.userId = JStr(<<"u">> \o SwachhPrefix)

\* The value of the member of a payload object with this key, or undefined.
MemberOf(obj, key) ==
    IF \E i \in 1..Len(obj.members) : obj.members[i].k = key
    THEN obj.members[CHOOSE i \in 1..Len(obj.members) : obj.members[i].k = key].v
    ELSE JUndefined

\* The payload objects with a userId or a user_id member.
PayloadsWithId ==
    { obj \in PayloadObjects :
        \E i \in 1..Len(obj.members) : obj.members[i].k \in {UserIdKey, User_idKey} }

\* The JSON texts of a payload object given to the decoder.
TextsOf(obj) == { JSONStringify(obj), <<" ">> \o JSONStringify(obj) \o <<" ">> }

\* The values JavaScript takes for false in a condition.
FalsyValues == { JUndefined, JNull, JBool(FALSE), JNum(0), JStr(<<>>) }

\* C13 as stated: for every JSON text of an object with a userId or user_id
\* member, parseQRCode returns isValid = true and the value of such a member
\* as userId, whatever the value is.
C13_JsonFieldIsReturned ==
    \A obj \in PayloadsWithId :
        (Decoded /\ utilCall.arg \in TextsOf(obj)) =>
            /\ utilCall.val.isValid
            /\ utilCall.val.userId
                  \in ({ MemberOf(obj, UserIdKey), MemberOf(obj, User_idKey) } \ { JUndefined })

\* C13: for every JSON text of an object with a userId or user_id member,
\* parseQRCode returns isValid = true and as userId the value of userId when
\* JavaScript takes it for true, else the value of user_id when JavaScript
\* takes that for true, else the whole text.
C13_TruthyJsonFieldIsReturned ==
    \A obj \in PayloadsWithId :
        (Decoded /\ utilCall.arg \in TextsOf(obj)) =>
            /\ utilCall.val.isValid
            /\ utilCall.val.userId =
                  IF MemberOf(obj, UserIdKey) \notin FalsyValues THEN MemberOf(obj, UserIdKey)
                  ELSE IF MemberOf(obj, User_idKey) \notin FalsyValues
                       THEN MemberOf(obj, User_idKey)
                  ELSE JStr(utilCall.arg)

\* userId is the empty string and user_id is a non-empty one: user_id is returned.
C13_Witness ==
    /\ Decoded
    /\ utilCall.arg = JSONStringify(JObj(<<[k |-> UserIdKey, v |-> JStr(<<>>)],
                                          [k |-> User_idKey, v |-> JStr(<<"u", "2">>)]>>))
    /\ utilCall.val.userId = JStr(<<"u", "2">>)

\* C14: for every non-empty text that is neither SWACHH_USER_<id> with a
\* non-empty id nor the JSON text of an object with a userId or user_id
\* member, parseQRCode returns isValid = true and the whole text as userId.
C14_OtherTextIsItsOwnId ==
    ( /\ Decoded
      /\ utilCall.arg # <<>>
      /\ ~HasPrefixForm(utilCall.arg)
      /\ \A obj \in PayloadsWithId : utilCall.arg \notin TextsOf(obj) )
    => /\ utilCall.val.isValid
       /\ utilCall.val.text = utilCall.arg
       /\ utilCall.val.userId = JStr(utilCall.arg)

\* The bare prefix was decoded to itself.
C14_Witness ==
    /\ Decoded
    /\ utilCall.arg = SwachhPrefix
    /\ utilCall.val.userId = JStr(SwachhPrefix)

\* C15: for every text parseQRCode returns a result with isValid = true and
\* without an error field, and for every non-empty text a userId JavaScript
\* takes for true, so handleScan never takes its 'Invalid QR Code' branch.
C15_DecodingNeverFails ==
    Decoded =>
        /\ utilCall.val.isValid
        /\ "error" \notin DOMAIN utilCall.val
        /\ utilCall.arg # <<>> => utilCall.val.userId \notin FalsyValues

\* The text null, where reading parsed.userId throws, was decoded to itself.
C15_Witness ==
    /\ Decoded
    /\ utilCall.arg = <<"n", "u", "l", "l">>
    /\ utilCall.val.isValid
    /\ utilCall.val.userId = JStr(<<"n", "u", "l", "l">>)

\* The record ret is input with an id assigned: it has an id, and every other
\* property is the input's.
IsInputWithId(ret, input) ==
    /\ DOMAIN ret = (DOMAIN input) \cup {"id"}
    /\ \A k \in (DOMAIN input) \ {"id"} : ret[k] = input[k]

\* The list after is the list before with one record added at its end, and
\* that record reads as ret.
AppendedExactly(before, after, ret) ==
    /\ Len(after) = Len(before) + 1
    /\ SubSeq(after, 1, Len(before)) = before
    /\ SameFields(after[Len(after)], ret)

\* C16: a call of logCollection or reportIllegalDumping returns its input with
\* an id assigned, and the partition it writes grows by that one record while
\* the other partition is left as it was.
C16_WritesReturnTheStoredRecord ==
    [][ LET call == lastCall' IN
        /\ (call.op = "logCollection" /\ now' = now) =>
              /\ IsInputWithId(call.val, call.arg)
              /\ call.val.id = MakeId("log", now, call.val.id[3])
              /\ AppendedExactly(Logs, Logs', call.val)
              /\ Reports' = Reports
        /\ (call.op = "reportIllegalDumping" /\ now' = now) =>
              /\ IsInputWithId(call.val, call.arg)
              /\ call.val.id = MakeId("report", now, call.val.id[3])
              /\ AppendedExactly(Reports, Reports', call.val)
              /\ Logs' = Logs ]_vars

\* A report with an undefined description was stored after a log, and the
\* call returned it with its id.
C16_Witness ==
    /\ lastCall.op = "reportIllegalDumping"
    /\ Len(Logs) = 1
    /\ Len(Reports) = 1
    /\ lastCall.arg.description = None
    /\ Reports[1].id = lastCall.val.id

\* The latest call was one of the two listing operations.
Listed == lastCall.op \in {"getCollectionLogs", "getDumpingReports"}

\* The partition the latest listing call read.
ListedPartition == IF lastCall.op = "getCollectionLogs" THEN Logs ELSE Reports

\* The records of list whose collector_id is c, in stored order.
OfCollector(list, c) == SelectSeq(list, LAMBDA rec : rec.collector_id = c)

\* C17 as stated: a listing call given any identifier, the empty string
\* included, returns exactly the records of that collector_id, and only a
\* call without an identifier returns every record.
C17_ListingFiltersByAnyId ==
    Listed =>
        lastCall.val = IF lastCall.arg.some
                       THEN OfCollector(ListedPartition, lastCall.arg.v)
                       ELSE ListedPartition

\* C17: a listing call given a non-empty identifier returns exactly the
\* records of that collector_id, in stored order; a call without an
\* identifier, or with the empty string, returns every record.
C17_ListingFiltersByNonEmptyId ==
    Listed =>
        lastCall.val = IF lastCall.arg.some /\ Len(lastCall.arg.v) > 0
                       THEN OfCollector(ListedPartition, lastCall.arg.v)
                       ELSE ListedPartition

\* Reports of two collectors are stored and a listing with the empty string
\* returned both.
C17_Witness ==
    /\ lastCall.op = "getDumpingReports"
    /\ lastCall.arg = Some(EmptyString)
    /\ Len(lastCall.val) = 2
    /\ lastCall.val[1].collector_id # lastCall.val[2].collector_id

\* The collector record login builds for an id.
CollectorOf(id) ==
    [id |-> id, name |-> CollectorNamePrefix \o id, is_active |-> TRUE]

\* What the session calls made so far leave persisted, read off the latest
\* call: a login persists its collector, a logout or no call at all nothing.
SessionAfterLatestCall ==
    /\ lastCall.op = "login" =>
            /\ CurrentCollector = Some(CollectorOf(lastCall.arg))
            /\ lastCall.val = CollectorOf(lastCall.arg)
    /\ lastCall.op \in {"logout", "none"} => CurrentCollector = None
    /\ lastCall.op = "getCurrentCollector" => lastCall.val = CurrentCollector

\* A call that is neither login nor logout leaves the persisted collector
\* as the latest of them left it.
OnlySessionCallsChangeSession ==
    lastCall'.op \notin {"login", "logout"} => CurrentCollector' = CurrentCollector

\* C18: the store holds at most one collector: none before any login and
\* after a logout, and after a login the collector of that login's id, which
\* replaces the one persisted before; reads and writes of records leave it
\* alone, so getCurrentCollector returns null or the collector of the most
\* recent login.
C18_OneCollectorOfLatestLogin ==
    /\ []SessionAfterLatestCall
    /\ [][OnlySessionCallsChangeSession]_vars

\* Collector c1 logged a record, then c2 logged in and is the one returned.
C18_Witness ==
    /\ lastCall.op = "getCurrentCollector"
    /\ lastCall.val = Some(CollectorOf(<<"c", "2">>))
    /\ Len(Logs) = 1
    /\ Logs[1].collector_id = <<"c", "1">>

\* Every stored report is pending, and the dashboard counts as many pending
\* reports as reports.
AllReportsPending ==
    /\ \A i \in 1..Len(Reports) : Reports[i].status = "Pending"
    /\ dashboard.stats.pendingReports = dashboard.stats.totalReports

\* A step leaves the status of every report already stored as it was.
StatusKept ==
    \A i \in 1..Len(Reports) :
        /\ i <= Len(Reports')
        /\ Reports'[i].id = Reports[i].id
        /\ Reports'[i].status = Reports[i].status

\* C19: from an empty store, every report the form files is stored with
\* status Pending, no step changes the status of a stored report, and the
\* pending count the dashboard shows equals its total report count.
C19_ReportsStayPending ==
    /\ []AllReportsPending
    /\ [][StatusKept]_vars

\* A report was filed and the dashboard, loaded after that, counts it as
\* its one report and as pending.
C19_Witness ==
    /\ Len(Reports) = 1
    /\ Reports[1].status = "Pending"
    /\ index.activeView = "dashboard"
    /\ dashboard.stats.totalReports = 1
    /\ dashboard.stats.pendingReports = 1

\* A call of getCurrentLocation has settled.
Located == utilCall.fn = "getCurrentLocation" /\ utilCall.phase = "settled"

\* The message the claim gives for each platform error code.
MessageOfCode(code) ==
    IF code = 1 THEN "Location access denied by user."
    ELSE IF code = 2 THEN "Location information is unavailable."
    ELSE IF code = 3 THEN "Location request timed out."
    ELSE "An unknown error occurred while fetching location."

\* C20: getCurrentLocation without geolocation support fails with code 0 and
\* issues no request; with support it issues one request and either resolves
\* with the latitude and longitude of the position delivered, or fails with
\* the platform's error code and the message of that code: the three standard
\* messages for 1, 2 and 3, the generic one for every other code.
C20_LocationSettlesByPlatformAnswer ==
    Located =>
        LET g == utilCall.geolocation
            val == utilCall.val
        IN  IF ~g.supported
            THEN /\ ~val.ok
                 /\ val.code = 0
                 /\ utilCall.requests = <<>>
            ELSE /\ Len(utilCall.requests) = 1
                 /\ IF g.ok
                    THEN /\ val.ok
                         /\ val.latitude = g.position.coords.latitude
                         /\ val.longitude = g.position.coords.longitude
                    ELSE /\ ~val.ok
                         /\ val.code = g.error.code
                         /\ val.message = MessageOfCode(g.error.code)

\* The platform answered with a code outside 1..3 and the call failed with
\* that code and the generic message.
C20_Witness ==
    /\ Located
    /\ utilCall.geolocation.supported
    /\ ~utilCall.geolocation.ok
    /\ utilCall.geolocation.error.code = 4
    /\ utilCall.val.code = 4
    /\ utilCall.val.message = "An unknown error occurred while fetching location."

\* The newest stored log.
NewestLog == Logs'[Len(Logs')]

\* Index holds a scan waiting for its waste type, handed over by some call
\* of onScanSuccess.
PendingScanOfIndex ==
    /\ index.showWasteSelector
    /\ index.scannedUserId.some
    /\ \E i \in 1..Len(successCalls) :
          /\ successCalls[i].userId = index.scannedUserId.v
          /\ successCalls[i].location = index.scanLocation

\* C21: a step stores a log only as a waste type selection for the scan
\* Index holds: it appends one log with the logged-in collector, the scanned
\* user id, one of the waste types and the coordinates of the scan, or 0 and
\* 0 when the scan has no location, and clears the scan held; while Index
\* holds no scanned user no log is stored.
C21_SelectionLogsThePendingScan ==
    [][ /\ Logs' # Logs =>
              /\ PendingScanOfIndex
              /\ currentCollector.some
              /\ Len(Logs') = Len(Logs) + 1
              /\ SubSeq(Logs', 1, Len(Logs)) = Logs
              /\ NewestLog.collector_id = currentCollector.v
              /\ NewestLog.user_id = index.scannedUserId.v
              /\ NewestLog.waste_type \in WasteTypes
              /\ NewestLog.latitude =
                    (IF index.scanLocation.some THEN index.scanLocation.v.lat ELSE 0)
              /\ NewestLog.longitude =
                    (IF index.scanLocation.some THEN index.scanLocation.v.lng ELSE 0)
              /\ index' = [index EXCEPT !.showWasteSelector = FALSE,
                                         !.scannedUserId = None,
                                         !.scanLocation = None]
        /\ ~index.scannedUserId.some => Logs' = Logs ]_vars

\* A scan with a position was logged and the scan held was cleared.
C21_Witness ==
    /\ Len(Logs) = 1
    /\ Logs[1].latitude = Fix.lat
    /\ Logs[1].longitude = Fix.lng
    /\ Len(successCalls) >= 1
    /\ ~index.showWasteSelector
    /\ index.scannedUserId = None

\* The entries of a history that are not synced, in order.
Unsynced(history) == SelectSeq(history, LAMBDA e : ~e.synced)

\* C22: clearSyncedScans leaves the entries that were not synced, in their
\* order, which is what getUnsyncedScans then returns; a second call right
\* after it changes nothing.
C22_ClearKeepsExactlyUnsynced ==
    [][ (lastCall'.op = "clearSyncedScans" /\ now' = now) =>
            /\ History' = Unsynced(History)
            /\ History' = ScanHistoryManager_getUnsyncedScans(localStorage')
            /\ ScanHistoryManager_clearSyncedScans(localStorage') = localStorage'
            /\ lastCall.op = "clearSyncedScans" => localStorage' = localStorage ]_vars

\* After a clear the history holds one entry, a log is stored too, and no
\* entry counts as marked any more.
C22_Witness ==
    /\ lastCall.op = "clearSyncedScans"
    /\ Len(History) = 1
    /\ ~History[1].synced
    /\ markedScans = {}
    /\ Len(Logs) = 1

\* The places of the history whose entry has the id.
PlacesOf(history, scanId) == { i \in 1..Len(history) : history[i].id = scanId }

\* C23: markAsSynced(id) sets synced on the first entry with that id and
\* leaves every other entry, the number of entries and their order as they
\* were; when no entry has the id the store is left as it was.
C23_MarkFlipsOneEntry ==
    [][ (lastCall'.op = "markAsSynced" /\ now' = now) =>
            LET places == PlacesOf(History, lastCall'.arg) IN
            IF places = {}
            THEN localStorage' = localStorage
            ELSE LET first == CHOOSE i \in places : \A j \in places : i <= j IN
                 /\ Len(History') = Len(History)
                 /\ History'[first] = [History[first] EXCEPT !.synced = TRUE]
                 /\ \A j \in 1..Len(History) : j # first => History'[j] = History[j] ]_vars

\* Two entries share the id given to markAsSynced; the first is synced and
\* the second is not.
C23_Witness ==
    /\ lastCall.op = "markAsSynced"
    /\ Len(History) = 2
    /\ History[1].id = lastCall.arg
    /\ History[2].id = lastCall.arg
    /\ History[1].synced
    /\ ~History[2].synced

InFlight(ps) == { i \in 1..Len(ps) : ps[i].scannerAlive }

Orphaned(ps) == { i \in 1..Len(ps) : ~ps[i].scannerAlive }

\* C26: when the location request of a scan settles after its scanner was
\* closed, nothing happens to Index: the waste type selector is not opened
\* and no scan is held for logging, so no log is created from it.
C26_ClosedScannerDropsItsScan ==
    [][ ( /\ successCalls' # successCalls
          /\ Cardinality(Orphaned(pendingScans')) < Cardinality(Orphaned(pendingScans)) )
        => /\ index' = index
           /\ Logs' = Logs ]_vars

\* The id App would read from the store on start-up.
PersistedId == IF CurrentCollector.some THEN Some(CurrentCollector.v.id) ELSE None

\* C27: the collector App holds is the persisted one: whenever the main
\* screen is shown for collector c the persisted collector has id c, and
\* whenever the login screen is shown no collector is persisted, so a
\* start-up, which reads the store, shows the main screen for the persisted
\* collector and the login screen when there is none.
C27_SessionMatchesStore ==
    /\ currentCollector.some =>
            (CurrentCollector.some /\ CurrentCollector.v.id = currentCollector.v)
    /\ currentCollector = PersistedId

\* The page was loaded again while a scan was pending, and the main screen
\* came up on its dashboard for the collector in the store.
C27_Witness ==
    /\ scanStats.dropped >= 1
    /\ currentCollector = Some(<<"c", "2">>)
    /\ CurrentCollector.some
    /\ CurrentCollector.v.id = <<"c", "2">>
    /\ index = IndexInit
    /\ pendingScans = <<>>

\* The text consists of spaces only, or of nothing.
IsBlank(text) == \A i \in 1..Len(text) : text[i] = " "

\* id is text without the spaces around it.
IsTrimOf(id, text) ==
    /\ id # EmptyString
    /\ id[1] # " "
    /\ id[Len(id)] # " "
    /\ \E a \in 0..Len(text) :
          /\ a + Len(id) <= Len(text)
          /\ SubSeq(text, a + 1, a + Len(id)) = id
          /\ IsBlank(SubSeq(text, 1, a))
          /\ IsBlank(SubSeq(text, a + Len(id) + 1, Len(text)))

\* C28: submitting the login form with an empty or blank text changes
\* neither the store nor the screen; submitting any other text logs in and
\* persists the collector whose id is the text without the spaces around it.
C28_BlankLoginRejected ==
    [][ \A text \in LoginTexts :
            HandleLogin(text) =>
                IF IsBlank(text)
                THEN /\ localStorage' = localStorage
                     /\ ~currentCollector'.some
                     /\ lastToast' = "Error"
                ELSE /\ currentCollector'.some
                     /\ IsTrimOf(currentCollector'.v, text)
                     /\ CurrentCollector' = Some(CollectorOf(currentCollector'.v)) ]_vars

\* A blank text was rejected on an empty store, and the text with spaces
\* around c2 logged collector c2 in.
C28_Witness ==
    /\ currentCollector = Some(<<"c", "2">>)
    /\ CurrentCollector = Some(CollectorOf(<<"c", "2">>))
    /\ lastToast = "Welcome!"
    /\ Reports = <<>>

\* C29: login(id) while the persisted collector has that id returns the
\* persisted record and leaves the store as it was; login with any other id,
\* or with none persisted, persists and returns the fresh record {id, name
\* 'Collector <id>', is_active true}; in both cases a second login(id) right
\* after it returns the same record and changes nothing.
C29_LoginIsIdempotent ==
    [][ (lastCall'.op = "login" /\ now' = now) =>
            LET id == lastCall'.arg
                again == CollectorAPI_login(localStorage', id)
            IN  /\ IF CurrentCollector.some /\ CurrentCollector.v.id = id
                   THEN /\ localStorage' = localStorage
                        /\ lastCall'.val = CurrentCollector.v
                   ELSE /\ CurrentCollector' =
                             Some([id |-> id, name |-> CollectorNamePrefix \o id,
                                   is_active |-> TRUE])
                        /\ lastCall'.val = CurrentCollector'.v
                        /\ \A k \in Keys \ {"current_collector"} :
                               localStorage'[k] = localStorage[k]
                /\ again.store = localStorage'
                /\ again.ret = lastCall'.val ]_vars

\* Collector c1 logged a record; the latest call is a login of c2, which is
\* now the persisted collector.
C29_Witness ==
    /\ lastCall.op = "login"
    /\ lastCall.arg = <<"c", "2">>
    /\ CurrentCollector.some
    /\ CurrentCollector.v.id = <<"c", "2">>
    /\ Len(Logs) = 1
    /\ Logs[1].collector_id = <<"c", "1">>
    /\ Len(Reports) = 1

\* A mock code was generated for a user id and decoded.
RoundTripDone == Decoded /\ "mockOf" \in DOMAIN utilCall

\* C30: for every non-empty user id, decoding the mock code generated for
\* it returns isValid = true and that user id, also when isValidUserId does
\* not accept the id.
C30_MockCodeRoundTrip ==
    (RoundTripDone /\ utilCall.mockOf # EmptyString) =>
        /\ utilCall.val.isValid
        /\ utilCall.val.userId = JStr(utilCall.mockOf)
        /\ utilCall.val.text = SwachhPrefix \o utilCall.mockOf

\* The mock code of a one-character id that isValidUserId rejects was
\* decoded to that id.
C30_Witness ==
    /\ RoundTripDone
    /\ utilCall.mockOf = <<"{">>
    /\ ~isValidUserId(utilCall.mockOf)
    /\ utilCall.val.userId = JStr(<<"{">>)

====
